---- MODULE Spec2Model ----
(***************************************************************************)
(* RustyCalc: the expression evaluator (tokeniser, recursive-descent       *)
(* parser, AST evaluator, Evaluator facade), the history it records to,    *)
(* and the unit converter with its nine catalogs.                          *)
(*                                                                         *)
(* A string is a sequence of characters; a character is a one-character    *)
(* TLA+ string, or "U+xxxx" for a code point outside ASCII.  Indices i and *)
(* current are zero-based as in the source, so chars[i] of the source is   *)
(* chars[i + 1] here.                                                      *)
(*                                                                         *)
(* An f64 is modelled by the real number it stands for when that number is *)
(* a rational the model can compute exactly (k = "rat", lowest terms), and *)
(* otherwise by the uninterpreted term that produced it (k = "const" for a *)
(* registry constant, k = "term" for an operation).                        *)
(***************************************************************************)
EXTENDS Integers, Sequences, FiniteSets, TLC

VARIABLES expression, angle_mode, outcome, history, history_max_size, file, poisoned,
          conv, parser, win, prefs, pc

vars ==
    <<expression, angle_mode, outcome, history, history_max_size, file, poisoned,
      conv, parser, win, prefs, pc>>

-----------------------------------------------------------------------------
(* Bounds of the model *)

\* longest expression enumerated exhaustively over Alphabet
MaxLen == 3

\* largest |exponent| for which powf is computed exactly
MaxExp == 4

\* largest argument for which the factorial is computed exactly
MaxFact == 6

\* deepest nesting of parentheses and longest run of minus signs parsed
MaxDepth == 4

\* largest max_size of a History::new
MaxSize == 3

\* longest sequence of History::add calls
MaxAdds == 5

\* longest text typed into the editor
MaxText == 2

\* number of units the conversion menu offers
MaxUnits == 2

-----------------------------------------------------------------------------
(* Characters *)

Digits == {"0", "1", "2", "3", "4", "5", "6", "7", "8", "9"}

Letters ==
    {"a", "b", "c", "d", "e", "f", "g", "h", "i", "j", "k", "l", "m", "n", "o",
     "p", "q", "r", "s", "t", "u", "v", "w", "x", "y", "z", "C", "G"}

\* the code points of the constant names that are not ASCII: pi, Phi, Planck h
NonAscii == {"U+03C0", "U+03A6", "U+210E"}

\* char::is_digit(10)
is_digit(c) == c \in Digits

\* char::is_alphanumeric (Unicode Alphabetic or Numeric)
is_alphanumeric(c) == c \in Digits \cup Letters \cup NonAscii

DigitVal(c) ==
    CASE c = "0" -> 0 [] c = "1" -> 1 [] c = "2" -> 2 [] c = "3" -> 3
      [] c = "4" -> 4 [] c = "5" -> 5 [] c = "6" -> 6 [] c = "7" -> 7
      [] c = "8" -> 8 [] c = "9" -> 9

-----------------------------------------------------------------------------
(* f64 values *)

Abs(n) == IF n < 0 THEN -n ELSE n

RECURSIVE GCD(_, _)
GCD(a, b) == IF b = 0 THEN a ELSE GCD(b, a % b)

Rat(n, d) ==
    LET g == GCD(Abs(n), Abs(d))
        s == IF d < 0 THEN -1 ELSE 1
    IN  [k |-> "rat", n |-> (s * n) \div g, d |-> (s * d) \div g]

Term(op, args) == [k |-> "term", op |-> op, args |-> args]

IsRat(v) == v.k = "rat"

RECURSIVE IntPow(_, _)
IntPow(b, e) == IF e = 0 THEN 1 ELSE b * IntPow(b, e - 1)

\* f64::powf, exact when base and exponent are rational, the exponent is an
\* integer of magnitude at most MaxExp and the result is finite
powf(l, r) ==
    IF IsRat(l) /\ IsRat(r) /\ r.d = 1 /\ Abs(r.n) <= MaxExp
       /\ (r.n >= 0 \/ l.n # 0)
    THEN IF r.n >= 0
         THEN Rat(IntPow(l.n, r.n), IntPow(l.d, r.n))
         ELSE Rat(IntPow(l.d, -r.n), IntPow(l.n, -r.n))
    ELSE Term("powf", <<l, r>>)

-----------------------------------------------------------------------------
(* Tokens and the registries *)

Number(v) == [type |-> "Number", value |-> v]
Plus == [type |-> "Plus"]
Minus == [type |-> "Minus"]
Multiply == [type |-> "Multiply"]
Divide == [type |-> "Divide"]
Exponent == [type |-> "Exponent"]
OpenParen == [type |-> "OpenParen"]
CloseParen == [type |-> "CloseParen"]
UnaryFunction(f) == [type |-> "UnaryFunction", func |-> f]

\* functions::get_all, in registry order; a Function is known by its name
function_register ==
    << <<"s","i","n">>, <<"c","o","s">>, <<"t","a","n">>,
       <<"a","s","i","n">>, <<"a","c","o","s">>, <<"a","t","a","n">>,
       <<"c","o","s","e","c">>, <<"s","e","c">>, <<"c","o","t">>,
       <<"a","c","o","s","e","c">>, <<"a","s","e","c">>, <<"a","c","o","t">>,
       <<"s","i","n","h">>, <<"c","o","s","h">>, <<"t","a","n","h">>,
       <<"a","s","i","n","h">>, <<"a","c","o","s","h">>, <<"a","t","a","n","h">>,
       <<"e","x","p">>, <<"l","n">>, <<"l","o","g">>, <<"l","o","g","2">>,
       <<"s","q","r","t">>, <<"a","b","s">>, <<"c","e","i","l">>,
       <<"f","l","o","o","r">>,
       <<"f","a","c","t","o","r","i","a","l">> >>

\* the functions whose closure goes through do_trig or do_atrig
TrigFunctions == {function_register[n] : n \in 1..12}

\* constants::get_all, in registry order
constant_register ==
    << [name |-> <<"U+03C0">>, value |-> [k |-> "const", name |-> "PI"]],
       [name |-> <<"e">>,      value |-> [k |-> "const", name |-> "E"]],
       [name |-> <<"U+03A6">>, value |-> Rat(161803, 100000)],
       [name |-> <<"C">>,      value |-> Rat(299792458, 1)],
       [name |-> <<"U+210E">>, value |-> [k |-> "const", name |-> "6.626e-34"]],
       [name |-> <<"G">>,      value |-> [k |-> "const", name |-> "6.674e-11"]] >>

\* chars[*i..*i + n] == name, guarded as in the source by i + n - 1 < exp_len
NameAt(chars, exp_len, i, name) ==
    /\ i + Len(name) - 1 < exp_len
    /\ SubSeq(chars, i + 1, i + Len(name)) = name

\* Function::is_token without the look at the character after the name
Function_is_token_NoLookahead(name, chars, exp_len, i) ==
    IF NameAt(chars, exp_len, i, name)
    THEN <<UnaryFunction(name), Len(name)>>
    ELSE <<>>

\* Function::is_token: <<>> is None, <<token, consumed>> is Some
Function_is_token(name, chars, exp_len, i) ==
    IF NameAt(chars, exp_len, i, name)
    THEN IF i + Len(name) < exp_len /\ is_alphanumeric(chars[i + Len(name) + 1])
         THEN <<>>
         ELSE <<UnaryFunction(name), Len(name)>>
    ELSE <<>>

\* Constant::is_token: the slice chars[*i..*i + name_len] is taken before the
\* length test, so it panics when the name does not fit in what is left
Constant_is_token(c, chars, exp_len, i) ==
    IF i + Len(c.name) > Len(chars)
    THEN "panic"
    ELSE IF NameAt(chars, exp_len, i, c.name)
         THEN IF i + Len(c.name) < exp_len
                 /\ is_alphanumeric(chars[i + Len(c.name) + 1])
              THEN <<>>
              ELSE <<Number(c.value), Len(c.name)>>
         ELSE <<>>

-----------------------------------------------------------------------------
(* Results and messages: a message is the sequence of the pieces that      *)
(* format! joins                                                           *)

Ok(v) == [kind |-> "Ok", value |-> v]
Err(m) == [kind |-> "Err", msg |-> m]
Panic == [kind |-> "Panic"]

MsgEmpty == <<"Please supply an expression to evaluate">>
MsgUnmatched == <<"Unmatched opening parenthesis">>
MsgNoParen == <<"Function must be followed by opening parenthesis">>
MsgEnd == <<"Unexpected end of token stream">>
MsgUnexpected(token) == <<"Unexpected token: ", token.type>>
MsgInvalid(c, i) == <<"Invalid token '", c, "' at position: ", i>>

-----------------------------------------------------------------------------
(* tokeniser.rs *)

\* the first function of the register that is a token at i, else the error
RECURSIVE parse_functions_from(_, _, _, _)
parse_functions_from(n, chars, exp_len, i) ==
    IF n > Len(function_register)
    THEN Err(MsgInvalid(chars[i + 1], i))
    ELSE LET t == Function_is_token(function_register[n], chars, exp_len, i)
         IN  IF t # <<>> THEN Ok(t)
             ELSE parse_functions_from(n + 1, chars, exp_len, i)

parse_functions(chars, exp_len, i) == parse_functions_from(1, chars, exp_len, i)

\* the end of the maximal run of digits and '.' that starts at i
RECURSIVE NumberEnd(_, _)
NumberEnd(chars, i) ==
    IF i < Len(chars) /\ (is_digit(chars[i + 1]) \/ chars[i + 1] = ".")
    THEN NumberEnd(chars, i + 1)
    ELSE i

DotCount(s) == Cardinality({n \in 1..Len(s) : s[n] = "."})

\* num_str.parse::<f64>() is Ok: digits with at most one '.', a digit at least
ValidFloat(s) == DotCount(s) <= 1 /\ Len(s) > DotCount(s)

RECURSIVE DigitsValue(_)
DigitsValue(s) ==
    IF s = <<>> THEN 0
    ELSE 10 * DigitsValue(SubSeq(s, 1, Len(s) - 1)) + DigitVal(s[Len(s)])

\* the value of a valid literal: its digits over 10^(digits after the '.')
ParseFloat(s) ==
    LET after == IF DotCount(s) = 0 THEN 0
                 ELSE Len(s) - (CHOOSE n \in 1..Len(s) : s[n] = ".")
        ds    == SelectSeq(s, LAMBDA c : c # ".")
    IN  Rat(DigitsValue(ds), IntPow(10, after))

RECURSIVE tokenize_from(_, _, _)
tokenize_from(chars, i, tokens) ==
    IF ~(i < Len(chars)) THEN Ok(tokens)
    ELSE LET c == chars[i + 1] IN
         IF is_digit(c) \/ c = "."
         THEN LET j == NumberEnd(chars, i)
                  num_str == SubSeq(chars, i + 1, j)
              IN  IF ValidFloat(num_str)
                  THEN tokenize_from(chars, j, Append(tokens, Number(ParseFloat(num_str))))
                  ELSE Panic
         ELSE IF c = "+" THEN tokenize_from(chars, i + 1, Append(tokens, Plus))
         ELSE IF c = "-" THEN tokenize_from(chars, i + 1, Append(tokens, Minus))
         ELSE IF c = "*" THEN tokenize_from(chars, i + 1, Append(tokens, Multiply))
         ELSE IF c = "/" THEN tokenize_from(chars, i + 1, Append(tokens, Divide))
         ELSE IF c = "^" THEN tokenize_from(chars, i + 1, Append(tokens, Exponent))
         ELSE IF c = "(" THEN tokenize_from(chars, i + 1, Append(tokens, OpenParen))
         ELSE IF c = ")" THEN tokenize_from(chars, i + 1, Append(tokens, CloseParen))
         ELSE IF c = " " \/ c = "\n" THEN tokenize_from(chars, i + 1, tokens)
         ELSE LET r == parse_functions(chars, Len(chars), i)
              IN  IF r.kind = "Ok"
                  THEN tokenize_from(chars, i + r.value[2], Append(tokens, r.value[1]))
                  ELSE r

tokenize(chars) == tokenize_from(chars, 0, <<>>)

-----------------------------------------------------------------------------
(* parser.rs: a parse result carries the cursor it leaves, [ok, node | err, *)
(* current]                                                                *)

NumberNode(v) == [node |-> "Number", value |-> v]
UnaryOp(op, expr) == [node |-> "UnaryOp", op |-> op, expr |-> expr]
BinaryOp(left, op, right) ==
    [node |-> "BinaryOp", left |-> left, op |-> op, right |-> right]
FunctionNode(func, expr) == [node |-> "Function", func |-> func, expr |-> expr]

POk(n, cur) == [ok |-> TRUE, node |-> n, current |-> cur]
PErr(m, cur) == [ok |-> FALSE, err |-> m, current |-> cur]

\* peek_token: <<>> is None
peek_token(tokens, current) ==
    IF current < Len(tokens) THEN <<tokens[current + 1]>> ELSE <<>>

\* `while let Some(token) = self.peek_token()` with the arm `token` matches
PeekIs(tokens, current, types) ==
    /\ peek_token(tokens, current) # <<>>
    /\ peek_token(tokens, current)[1].type \in types

\* next_token: the token, if any, and the cursor after it
next_token(tokens, current) ==
    IF current < Len(tokens)
    THEN [token |-> <<tokens[current + 1]>>, current |-> current + 1]
    ELSE [token |-> <<>>, current |-> current]

\* the matches `Some(Token::X)` of the source
IsSome(option, type) == option.token # <<>> /\ option.token[1].type = type

RECURSIVE parse_add_sub(_, _), add_sub_loop(_, _, _)
RECURSIVE parse_mul_div(_, _), mul_div_loop(_, _, _)
RECURSIVE parse_exponent(_, _), exponent_loop(_, _, _)
RECURSIVE parse_primary(_, _)

parse_expression(tokens, current) == parse_add_sub(tokens, current)

\* `let mut node = self.parse_x()?;` followed by the while loop of its level
add_sub_first(tokens, first) ==
    IF first.ok THEN add_sub_loop(tokens, first.node, first.current) ELSE first

mul_div_first(tokens, first) ==
    IF first.ok THEN mul_div_loop(tokens, first.node, first.current) ELSE first

exponent_first(tokens, first) ==
    IF first.ok THEN exponent_loop(tokens, first.node, first.current) ELSE first

\* `let right = self.parse_x()?; node = BinaryOp {left: node, op, right}`,
\* then the loop again
add_sub_next(tokens, node, op, right) ==
    IF right.ok
    THEN add_sub_loop(tokens, BinaryOp(node, op, right.node), right.current)
    ELSE right

mul_div_next(tokens, node, op, right) ==
    IF right.ok
    THEN mul_div_loop(tokens, BinaryOp(node, op, right.node), right.current)
    ELSE right

exponent_next(tokens, node, op, right) ==
    IF right.ok
    THEN exponent_loop(tokens, BinaryOp(node, op, right.node), right.current)
    ELSE right

\* the while loop of parse_add_sub, node being the accumulated left operand
add_sub_loop(tokens, node, current) ==
    IF PeekIs(tokens, current, {"Plus", "Minus"})
    THEN add_sub_next(tokens, node, peek_token(tokens, current)[1],
                      parse_mul_div(tokens, current + 1))
    ELSE POk(node, current)

parse_add_sub(tokens, current) ==
    add_sub_first(tokens, parse_mul_div(tokens, current))

\* mul_div_loop with '+' and '-' taken at the level of '*' and '/'
mul_div_loop_AddLevel(tokens, node, current) ==
    IF PeekIs(tokens, current, {"Multiply", "Divide", "Plus", "Minus"})
    THEN mul_div_next(tokens, node, peek_token(tokens, current)[1],
                      parse_exponent(tokens, current + 1))
    ELSE POk(node, current)

\* the while loop of parse_mul_div
mul_div_loop(tokens, node, current) ==
    IF PeekIs(tokens, current, {"Multiply", "Divide"})
    THEN mul_div_next(tokens, node, peek_token(tokens, current)[1],
                      parse_exponent(tokens, current + 1))
    ELSE POk(node, current)

parse_mul_div(tokens, current) ==
    mul_div_first(tokens, parse_exponent(tokens, current))

\* exponent_loop with the right operand parsed as a whole exponent chain
exponent_loop_RightAssoc(tokens, node, current) ==
    IF PeekIs(tokens, current, {"Exponent"})
    THEN exponent_next(tokens, node, peek_token(tokens, current)[1],
                       parse_exponent(tokens, current + 1))
    ELSE POk(node, current)

\* the while loop of parse_exponent
exponent_loop(tokens, node, current) ==
    IF PeekIs(tokens, current, {"Exponent"})
    THEN exponent_next(tokens, node, peek_token(tokens, current)[1],
                       parse_primary(tokens, current + 1))
    ELSE POk(node, current)

parse_exponent(tokens, current) ==
    exponent_first(tokens, parse_primary(tokens, current))

\* the OpenParen arm: node is the inner result, kept without '?'; the token
\* after it is consumed, and only then is the inner result returned
paren_close(node, close) ==
    IF IsSome(close, "CloseParen")
    THEN [node EXCEPT !.current = close.current]
    ELSE PErr(MsgUnmatched, close.current)

paren_inner(tokens, node) == paren_close(node, next_token(tokens, node.current))

parse_paren(tokens, current) ==
    paren_inner(tokens, parse_expression(tokens, current))

\* function_close without the test for the closing parenthesis
function_close_NoCheck(func, expr, close) ==
    POk(FunctionNode(func, expr.node), close.current)

\* the UnaryFunction arm: the token after the argument
function_close(func, expr, close) ==
    IF IsSome(close, "CloseParen")
    THEN POk(FunctionNode(func, expr.node), close.current)
    ELSE PErr(MsgUnmatched, close.current)

\* the UnaryFunction arm: `let expr = self.parse_expression()?;`
function_arg(func, tokens, expr) ==
    IF expr.ok
    THEN function_close(func, expr, next_token(tokens, expr.current))
    ELSE expr

\* the UnaryFunction arm: `let option = self.next_token();`
function_open(func, tokens, option) ==
    IF IsSome(option, "OpenParen")
    THEN function_arg(func, tokens, parse_expression(tokens, option.current))
    ELSE PErr(MsgNoParen, option.current)

parse_function(func, tokens, current) ==
    function_open(func, tokens, next_token(tokens, current))

\* the Minus arm
\* the Minus arm that builds the UnaryOp over the token before the operand
negate_WrongOp(expr) ==
    IF expr.ok THEN POk(UnaryOp(Plus, expr.node), expr.current) ELSE expr

negate(expr) ==
    IF expr.ok THEN POk(UnaryOp(Minus, expr.node), expr.current) ELSE expr

\* a match whose Minus arm negates a whole power instead of a primary
primary_match_WholePower(tokens, token, current) ==
    CASE token.type = "Number" -> POk(NumberNode(token.value), current)
      [] token.type = "OpenParen" -> parse_paren(tokens, current)
      [] token.type = "Minus" -> negate(parse_exponent(tokens, current))
      [] token.type = "UnaryFunction" ->
           parse_function(token.func, tokens, current)
      [] OTHER -> PErr(MsgUnexpected(token), current)

\* the match on the token that parse_primary took
primary_match(tokens, token, current) ==
    CASE token.type = "Number" -> POk(NumberNode(token.value), current)
      [] token.type = "OpenParen" -> parse_paren(tokens, current)
      [] token.type = "Minus" -> negate(parse_primary(tokens, current))
      [] token.type = "UnaryFunction" ->
           parse_function(token.func, tokens, current)
      [] OTHER -> PErr(MsgUnexpected(token), current)

primary_token(tokens, nt) ==
    IF nt.token = <<>> THEN PErr(MsgEnd, nt.current)
    ELSE primary_match(tokens, nt.token[1], nt.current)

parse_primary(tokens, current) ==
    primary_token(tokens, next_token(tokens, current))

\* Parser::new(tokens).parse()
parse(tokens) == parse_expression(tokens, 0)

-----------------------------------------------------------------------------
(* parser.rs, one step at a time.  The Parser is its fields tokens and     *)
(* current and the stack of the calls in progress; a frame is the function *)
(* called, the point reached in its body and its locals.  ret holds the    *)
(* Result a call has just returned, until the caller takes it.  examined   *)
(* is the position of the token the last step read, consumed the positions *)
(* the cursor was moved over, in the order they were passed.               *)

Frame(fn, at, node, op) == [fn |-> fn, at |-> at, node |-> node, op |-> op]

\* Parser::new(tokens) with parse() called: parse and parse_expression only
\* hand on to parse_add_sub
Parser_new(tokens) ==
    [tokens |-> tokens, current |-> 0,
     stack |-> <<Frame("parse_add_sub", "start", <<>>, <<>>)>>,
     ret |-> <<>>, examined |-> <<>>, consumed |-> <<>>]

\* the function a precedence level parses its operands with
operand_of(fn) ==
    CASE fn = "parse_add_sub" -> "parse_mul_div"
      [] fn = "parse_mul_div" -> "parse_exponent"
      [] fn = "parse_exponent" -> "parse_primary"

\* the arms of the match in the loop of a precedence level
operators_of(fn) ==
    CASE fn = "parse_add_sub" -> {"Plus", "Minus"}
      [] fn = "parse_mul_div" -> {"Multiply", "Divide"}
      [] fn = "parse_exponent" -> {"Exponent"}

Top(p) == p.stack[Len(p.stack)]

\* the frame on top goes on as `frame`
Resume(p, frame) ==
    [p EXCEPT !.stack[Len(p.stack)] = frame, !.ret = <<>>]

\* the frame on top goes on as `frame` once the call of fn it makes returns
Call(p, frame, fn) ==
    [p EXCEPT !.stack = Append(Resume(p, frame).stack,
                               Frame(fn, "start", <<>>, <<>>)),
              !.ret = <<>>]

\* the function on top returns r
Return(p, r) ==
    [p EXCEPT !.stack = SubSeq(p.stack, 1, Len(p.stack) - 1), !.ret = <<r>>]

\* peek_token has read the token under the cursor, if there is one
Peeked(p) ==
    [p EXCEPT !.examined =
                  IF p.current < Len(p.tokens) THEN <<p.current>> ELSE <<>>]

\* consume_token: self.current += 1
\* consume_token that records the token and leaves the cursor where it is
consume_token_Stay(p) == [p EXCEPT !.consumed = Append(p.consumed, p.current)]

consume_token(p) ==
    [p EXCEPT !.current = p.current + 1,
              !.consumed = Append(p.consumed, p.current)]

\* next_token has read the token under the cursor, if there is one, and has
\* moved the cursor over it
Taken(p) ==
    IF next_token(p.tokens, p.current).token = <<>> THEN Peeked(p)
    ELSE [Peeked(p) EXCEPT
              !.current = next_token(p.tokens, p.current).current,
              !.consumed = Append(p.consumed, p.current)]

\* a step starts with no token read yet
Fresh(p) == [p EXCEPT !.examined = <<>>]

\* parse_add_sub, parse_mul_div, parse_exponent: one step of the frame f
level_step(p, f) ==
    CASE f.at = "start" ->
           Call(p, [f EXCEPT !.at = "first"], operand_of(f.fn))
      [] f.at = "first" ->
           IF p.ret[1].ok
           THEN Resume(p, [f EXCEPT !.at = "loop", !.node = <<p.ret[1].node>>])
           ELSE Return(p, p.ret[1])
      [] f.at = "loop" ->
           IF PeekIs(p.tokens, p.current, operators_of(f.fn))
           THEN consume_token(Peeked(
                    Call(p, [f EXCEPT !.at = "right",
                                      !.op = peek_token(p.tokens, p.current)],
                         operand_of(f.fn))))
           ELSE Peeked(Return(p, POk(f.node[1], p.current)))
      [] f.at = "right" ->
           IF p.ret[1].ok
           THEN Resume(p, [f EXCEPT
                              !.at = "loop",
                              !.node = <<BinaryOp(f.node[1], f.op[1],
                                                  p.ret[1].node)>>])
           ELSE Return(p, p.ret[1])

\* parse_primary, the match on the token taken
primary_arm(p, f, token) ==
    CASE token.type = "Number" ->
           Return(p, POk(NumberNode(token.value), p.current))
      [] token.type = "OpenParen" ->
           Call(p, [f EXCEPT !.at = "paren"], "parse_add_sub")
      [] token.type = "Minus" ->
           Call(p, [f EXCEPT !.at = "minus"], "parse_primary")
      [] token.type = "UnaryFunction" ->
           Resume(p, [f EXCEPT !.at = "open", !.op = <<token>>])
      [] OTHER -> Return(p, PErr(MsgUnexpected(token), p.current))

\* the token after a parenthesised expression or after a function argument
close_step(p, t, r) ==
    IF IsSome(next_token(p.tokens, p.current), "CloseParen")
    THEN Return(t, [r EXCEPT !.current = t.current])
    ELSE Return(t, PErr(MsgUnmatched, t.current))

\* parse_primary: one step of the frame f
primary_step(p, f) ==
    CASE f.at = "start" ->
           IF next_token(p.tokens, p.current).token = <<>>
           THEN Return(Taken(p), PErr(MsgEnd, p.current))
           ELSE primary_arm(Taken(p), f, p.tokens[p.current + 1])
      [] f.at = "paren" -> close_step(p, Taken(p), p.ret[1])
      [] f.at = "minus" ->
           IF p.ret[1].ok
           THEN Return(p, POk(UnaryOp(Minus, p.ret[1].node), p.ret[1].current))
           ELSE Return(p, p.ret[1])
      [] f.at = "open" ->
           IF IsSome(next_token(p.tokens, p.current), "OpenParen")
           THEN Call(Taken(p), [f EXCEPT !.at = "arg"], "parse_add_sub")
           ELSE Return(Taken(p), PErr(MsgNoParen, Taken(p).current))
      [] f.at = "arg" ->
           IF p.ret[1].ok
           THEN close_step(p, Taken(p),
                           POk(FunctionNode(f.op[1].func, p.ret[1].node),
                               p.current))
           ELSE Return(p, p.ret[1])

-----------------------------------------------------------------------------
(* mod.rs: Token::perform_binary / perform_unary, AstNode::evaluate        *)

AngleModes == {"Degrees", "Radians", "Gradians"}

\* what a panic! inside the evaluation leaves in place of a number
PanicValue == [k |-> "panic"]

perform_binary(op, left, right) ==
    CASE op.type = "Plus" ->
           IF IsRat(left) /\ IsRat(right)
           THEN Rat(left.n * right.d + right.n * left.d, left.d * right.d)
           ELSE Term("add", <<left, right>>)
      [] op.type = "Minus" ->
           IF IsRat(left) /\ IsRat(right)
           THEN Rat(left.n * right.d - right.n * left.d, left.d * right.d)
           ELSE Term("sub", <<left, right>>)
      [] op.type = "Multiply" ->
           IF IsRat(left) /\ IsRat(right)
           THEN Rat(left.n * right.n, left.d * right.d)
           ELSE Term("mul", <<left, right>>)
      [] op.type = "Divide" ->
           IF IsRat(left) /\ IsRat(right) /\ right.n # 0
           THEN Rat(left.n * right.d, left.d * right.n)
           ELSE Term("div", <<left, right>>)
      [] op.type = "Exponent" -> powf(left, right)
      [] OTHER -> PanicValue

\* f64 multiplication and division, exact on rationals
fmul(l, r) == perform_binary(Multiply, l, r)
fdiv(l, r) == perform_binary(Divide, l, r)

\* f64::to_radians and f64::to_degrees: exact at 0, a term elsewhere
to_radians(v) ==
    IF IsRat(v) /\ v.n = 0 THEN v ELSE Term("to_radians", <<v>>)
to_degrees(v) ==
    IF IsRat(v) /\ v.n = 0 THEN v ELSE Term("to_degrees", <<v>>)

\* do_trig: the argument is brought to radians, then f is applied
do_trig(v, mode, f) ==
    CASE mode = "Radians" -> Term(f, <<v>>)
      [] mode = "Degrees" -> Term(f, <<to_radians(v)>>)
      [] mode = "Gradians" -> Term(f, <<to_radians(fmul(v, Rat(9, 10)))>>)

\* do_atrig: f is applied, then the result is brought to the angle mode
do_atrig(v, mode, f) ==
    CASE mode = "Radians" -> Term(f, <<v>>)
      [] mode = "Degrees" -> to_degrees(Term(f, <<v>>))
      [] mode = "Gradians" -> fdiv(to_degrees(Term(f, <<v>>)), Rat(9, 10))

INFINITY == [k |-> "const", name |-> "INFINITY"]
NAN == [k |-> "const", name |-> "NAN"]

\* `for i in 2..v_floor { factorial *= i as f64; }`, exact up to MaxFact
RECURSIVE factorial_loop(_, _, _)
factorial_loop(i, v_floor, acc) ==
    IF i >= v_floor THEN acc
    ELSE factorial_loop(i + 1, v_floor, acc * i)

\* the closure of "factorial"
factorial(v) ==
    IF ~IsRat(v) THEN Term("factorial", <<v>>)
    ELSE IF v.n > 170 * v.d THEN INFINITY
    ELSE IF v.d # 1 THEN NAN
    ELSE IF v.n > MaxFact THEN fmul(Term("product_below", <<v>>), v)
    ELSE fmul(Rat(factorial_loop(2, v.n, 1), 1), v)

\* Function::evaluate with every closure going through do_trig
Function_evaluate_AllTrig(func, val, mode) == do_trig(val, mode, func)

\* Function::evaluate: the closure of the named function; the angle mode is
\* an argument of the twelve trigonometric closures only
Function_evaluate(func, val, mode) ==
    CASE func = <<"s", "i", "n">> -> do_trig(val, mode, func)
      [] func = <<"c", "o", "s">> -> do_trig(val, mode, func)
      [] func = <<"t", "a", "n">> -> do_trig(val, mode, func)
      [] func = <<"a", "s", "i", "n">> -> do_atrig(val, mode, func)
      [] func = <<"a", "c", "o", "s">> -> do_atrig(val, mode, func)
      [] func = <<"a", "t", "a", "n">> -> do_atrig(val, mode, func)
      [] func = <<"c", "o", "s", "e", "c">> ->
           fdiv(Rat(1, 1), do_trig(val, mode, <<"s", "i", "n">>))
      [] func = <<"s", "e", "c">> ->
           fdiv(Rat(1, 1), do_trig(val, mode, <<"c", "o", "s">>))
      [] func = <<"c", "o", "t">> ->
           fdiv(Rat(1, 1), do_trig(val, mode, <<"t", "a", "n">>))
      [] func = <<"a", "c", "o", "s", "e", "c">> ->
           do_atrig(fdiv(Rat(1, 1), val), mode, <<"a", "s", "i", "n">>)
      [] func = <<"a", "s", "e", "c">> ->
           do_atrig(fdiv(Rat(1, 1), val), mode, <<"a", "c", "o", "s">>)
      [] func = <<"a", "c", "o", "t">> ->
           do_atrig(fdiv(Rat(1, 1), val), mode, <<"a", "t", "a", "n">>)
      [] func = <<"f", "a", "c", "t", "o", "r", "i", "a", "l">> -> factorial(val)
      [] OTHER -> Term(func, <<val>>)

perform_unary(op, val, mode) ==
    CASE op.type = "Minus" ->
           IF IsRat(val) THEN Rat(-val.n, val.d) ELSE Term("neg", <<val>>)
      [] op.type = "UnaryFunction" -> Function_evaluate(op.func, val, mode)
      [] OTHER -> PanicValue

RECURSIVE AstNode_evaluate(_, _)
AstNode_evaluate(ast, mode) ==
    CASE ast.node = "Number" -> ast.value
      [] ast.node = "UnaryOp" ->
           perform_unary(ast.op, AstNode_evaluate(ast.expr, mode), mode)
      [] ast.node = "BinaryOp" ->
           perform_binary(ast.op, AstNode_evaluate(ast.left, mode),
                          AstNode_evaluate(ast.right, mode))
      [] ast.node = "Function" ->
           Function_evaluate(ast.func, AstNode_evaluate(ast.expr, mode), mode)

\* a panic occurred somewhere under the value
RECURSIVE Panicked(_)
Panicked(v) ==
    \/ v.k = "panic"
    \/ v.k = "term" /\ \E n \in 1..Len(v.args) : Panicked(v.args[n])

\* a panic unwinds out of evaluate, anything else is the value returned
evaluate_value(v) == IF Panicked(v) THEN Panic ELSE Ok(v)

\* `let ast = parser.parse()?; Ok(ast.evaluate(&self.angle_mode))`
evaluate_ast(ast, mode) ==
    IF ast.ok THEN evaluate_value(AstNode_evaluate(ast.node, mode))
    ELSE Err(ast.err)

\* `tokenize(expression, &self).and_then(|tokens| ...)`
evaluate_tokens(tokens, mode) ==
    IF tokens.kind = "Ok" THEN evaluate_ast(parse(tokens.value), mode)
    ELSE tokens

\* Evaluator::evaluate without the test for the empty expression
Evaluator_evaluate_NoEmptyCheck(expr, mode) ==
    evaluate_tokens(tokenize(expr), mode)

\* Evaluator::evaluate, the value it returns
Evaluator_evaluate(expr, mode) ==
    IF expr = <<>> THEN Err(MsgEmpty)
    ELSE evaluate_tokens(tokenize(expr), mode)

-----------------------------------------------------------------------------
(* history.rs *)

HISTORY_SIZE == 100

\* an eviction that takes the newest entry, at the front
RECURSIVE pop_while_full_Front(_, _)
pop_while_full_Front(entries, max_size) ==
    IF Len(entries) >= max_size /\ entries # <<>>
    THEN pop_while_full_Front(Tail(entries), max_size)
    ELSE entries

\* History::add: evict from the back while full, then push at the front
RECURSIVE pop_while_full(_, _)
pop_while_full(entries, max_size) ==
    IF Len(entries) >= max_size /\ entries # <<>>
    THEN pop_while_full(SubSeq(entries, 1, Len(entries) - 1), max_size)
    ELSE entries

History_add(entries, entry, max_size) ==
    <<entry>> \o pop_while_full(entries, max_size)

-----------------------------------------------------------------------------
(* conversions/mod.rs.  A conversion function is the sequence of the       *)
(* arithmetic steps of its body, each step naming the literal of the       *)
(* source it uses; a division by a product is the divisions by its         *)
(* factors.  An f64 that is being converted is the sequence of the steps   *)
(* applied so far to the number the conversion started from.               *)

None == <<>>
Some(f) == <<f>>

Mul(c) == <<[op |-> "mul", c |-> c]>>
Div(c) == <<[op |-> "div", c |-> c]>>
Add(c) == <<[op |-> "add", c |-> c]>>
Sub(c) == <<[op |-> "sub", c |-> c]>>

\* Option::unwrap inside a closure: calling the closure panics on None
unwrap(option) == IF option = None THEN <<[op |-> "panic", c |-> ""]>> ELSE option[1]

to_milli == Mul("1e3")
from_milli == Div("1e3")
to_micro == Mul("1e6")
from_micro == Div("1e6")
to_kilo == Div("1e3")
from_kilo == Mul("1e3")
to_mega == Div("1e6")
from_mega == Mul("1e6")
to_giga == Div("1e9")
from_giga == Mul("1e9")

Unit(name, dimension, system, to_base, from_base, to_sys, from_sys) ==
    [name |-> name, dimension |-> dimension, system |-> system,
     to_base |-> to_base, from_base |-> from_base,
     to_system_base |-> to_sys, from_system_base |-> from_sys]

\* impl PartialEq for Unit
Unit_eq(a, b) == a.name = b.name

\* System::is_default
is_default(system) == system = "Metric"

\* `if let Some(f) = ... { result = f(result); }`
apply(option, result) == IF option = None THEN result ELSE result \o option[1]

\* the pair (to_base, from_base) that convert binds
convert_functions(from, to) ==
    IF from.system = to.system /\ from.dimension = to.dimension
       /\ ~is_default(from.system)
    THEN <<from.to_system_base, to.from_system_base>>
    ELSE <<from.to_base, to.from_base>>

\* convert with the two functions applied in the other order
convert_FromFirst(value, from, to) ==
    IF Unit_eq(from, to) THEN value
    ELSE apply(convert_functions(from, to)[1],
               apply(convert_functions(from, to)[2], value))

\* convert without the comparison of the two units
convert_NoShortCircuit(value, from, to) ==
    apply(convert_functions(from, to)[2],
          apply(convert_functions(from, to)[1], value))

convert(value, from, to) ==
    IF Unit_eq(from, to) THEN value
    ELSE apply(convert_functions(from, to)[2],
               apply(convert_functions(from, to)[1], value))

-----------------------------------------------------------------------------
(* conversions/mass.rs *)

KILOGRAM == Unit("Kilogram", "Mass", "Metric", None, None, None, None)
\* GRAM declared without its functions to and from the kilogram
GRAM_NoBase == Unit("Gram", "Mass", "Metric", None, None, None, None)

GRAM ==
    Unit("Gram", "Mass", "Metric", Some(to_kilo), Some(from_kilo), None, None)
TONNE ==
    Unit("Ton (metric)", "Mass", "Metric", Some(from_kilo), Some(to_kilo),
         None, None)

mass_get_all ==
    << KILOGRAM, GRAM,
       Unit("Milligram", "Mass", "Metric",
            Some(from_milli \o unwrap(GRAM.to_base)),
            Some(unwrap(GRAM.from_base) \o to_milli), None, None),
       Unit("Microgram", "Mass", "Metric",
            Some(from_micro \o unwrap(GRAM.to_base)),
            Some(unwrap(GRAM.from_base) \o to_micro), None, None),
       TONNE,
       Unit("Kiloton (metric)", "Mass", "Metric",
            Some(from_kilo \o unwrap(TONNE.to_base)),
            Some(unwrap(TONNE.from_base) \o to_kilo), None, None),
       Unit("Megaton (metric)", "Mass", "Metric",
            Some(from_mega \o unwrap(TONNE.to_base)),
            Some(unwrap(TONNE.from_base) \o to_mega), None, None),
       Unit("Gigaton (metric)", "Mass", "Metric",
            Some(from_giga \o unwrap(TONNE.to_base)),
            Some(unwrap(TONNE.from_base) \o to_giga), None, None),
       Unit("Ounce", "Mass", "Imperial",
            Some(Div("OUNCES_PER_KILO")), Some(Mul("OUNCES_PER_KILO")),
            None, None),
       Unit("Pound", "Mass", "Imperial",
            Some(Mul("16.0") \o Div("OUNCES_PER_KILO")),
            Some(Mul("OUNCES_PER_KILO") \o Div("16.0")),
            Some(Mul("16.0")), Some(Div("16.0"))),
       Unit("Long Ton", "Mass", "Imperial",
            Some(Mul("2240.0") \o Mul("16.0") \o Div("OUNCES_PER_KILO")),
            Some(Mul("OUNCES_PER_KILO") \o Div("2240.0") \o Div("16.0")),
            Some(Mul("2240.0") \o Mul("16.0")),
            Some(Div("2240.0") \o Div("16.0"))),
       Unit("Short Ton", "Mass", "Imperial",
            Some(Mul("2000.0") \o Mul("16.0") \o Div("OUNCES_PER_KILO")),
            Some(Mul("OUNCES_PER_KILO") \o Div("2000.0") \o Div("16.0")),
            Some(Mul("2000.0") \o Mul("16.0")),
            Some(Div("2000.0") \o Div("16.0"))) >>

-----------------------------------------------------------------------------
(* conversions/length.rs *)

METRE == Unit("Metre", "Length", "Metric", None, None, None, None)
CENTIMETRE ==
    Unit("Centimetre", "Length", "Metric",
         Some(Div("100.0")), Some(Mul("100.0")), None, None)
MILLIMETRE ==
    Unit("Millimetre", "Length", "Metric",
         Some(from_milli), Some(to_milli), None, None)
MICROMETRE ==
    Unit("Micrometre", "Length", "Metric",
         Some(from_micro), Some(to_micro), None, None)
KILOMETRE ==
    Unit("Kilometre", "Length", "Metric",
         Some(from_kilo), Some(to_kilo), None, None)
YARD ==
    Unit("Yard", "Length", "Imperial",
         Some(Div("YARDS_PER_METRE")), Some(Mul("YARDS_PER_METRE")),
         None, None)
FOOT ==
    Unit("Foot", "Length", "Imperial",
         Some(Div("YARDS_PER_METRE") \o Div("3.0")),
         Some(Mul("YARDS_PER_METRE") \o Mul("3.0")),
         Some(Div("3.0")), Some(Mul("3.0")))
INCH ==
    Unit("Inch", "Length", "Imperial",
         Some(Div("YARDS_PER_METRE") \o Div("36.0")),
         Some(Mul("YARDS_PER_METRE") \o Mul("36.0")),
         Some(Div("36.0")), Some(Mul("36.0")))
MILE ==
    Unit("Mile", "Length", "Imperial",
         Some(Div("YARDS_PER_METRE") \o Mul("1760.0")),
         Some(Mul("YARDS_PER_METRE") \o Div("1760.0")),
         Some(Mul("1760.0")), Some(Div("1760.0")))
NAUTICAL_MILE ==
    Unit("Nm", "Length", "Imperial",
         Some(Div("YARDS_PER_METRE") \o Mul("2025.373")),
         Some(Mul("YARDS_PER_METRE") \o Div("2025.373")),
         Some(Mul("2025.373")), Some(Div("2025.373")))

length_get_all ==
    << METRE, CENTIMETRE, MILLIMETRE, MICROMETRE, KILOMETRE,
       Unit("Lightyear", "Length", "Metric",
            Some(Mul("METRES_PER_LIGHTYEAR")),
            Some(Div("METRES_PER_LIGHTYEAR")), None, None),
       Unit("Parsec", "Length", "Metric",
            Some(Mul("METRES_PER_PARSEC")), Some(Div("METRES_PER_PARSEC")),
            None, None),
       YARD, FOOT, INCH, MILE, NAUTICAL_MILE >>

-----------------------------------------------------------------------------
(* conversions/temperature.rs *)

\* the catalog with KELVIN given its to_base only
temperature_get_all_OneWay ==
    << Unit("Celsius", "Temp", "Metric", None, None, None, None),
       Unit("Kelvin", "Temp", "Metric", Some(Sub("273.15")), None, None, None),
       Unit("Fahrenheit", "Temp", "Metric",
            Some(Sub("32.0") \o Div("9.0") \o Mul("5.0")),
            Some(Div("5.0") \o Mul("9.0") \o Add("32.0")), None, None) >>

temperature_get_all ==
    << Unit("Celsius", "Temp", "Metric", None, None, None, None),
       Unit("Kelvin", "Temp", "Metric",
            Some(Sub("273.15")), Some(Add("273.15")), None, None),
       Unit("Fahrenheit", "Temp", "Metric",
            Some(Sub("32.0") \o Div("9.0") \o Mul("5.0")),
            Some(Div("5.0") \o Mul("9.0") \o Add("32.0")), None, None) >>

-----------------------------------------------------------------------------
(* conversions/area.rs *)

area_get_all ==
    << Unit("Sq_Metre", "Area", "Metric", None, None, None, None),
       Unit("Sq_Centimetre", "Area", "Metric",
            Some(unwrap(CENTIMETRE.to_base) \o unwrap(CENTIMETRE.to_base)),
            Some(unwrap(CENTIMETRE.from_base) \o unwrap(CENTIMETRE.from_base)),
            None,
            None),
       Unit("Sq_Millimetre", "Area", "Metric",
            Some(unwrap(MILLIMETRE.to_base) \o unwrap(MILLIMETRE.to_base)),
            Some(unwrap(MILLIMETRE.from_base) \o unwrap(MILLIMETRE.from_base)),
            None,
            None),
       Unit("Sq_Micrometre", "Area", "Metric",
            Some(unwrap(MICROMETRE.to_base) \o unwrap(MICROMETRE.to_base)),
            Some(unwrap(MICROMETRE.from_base) \o unwrap(MICROMETRE.from_base)),
            None,
            None),
       Unit("Hectare", "Area", "Metric",
            Some(Mul("10000.0")), Some(Div("10000.0")),
            None, None),
       Unit("Sq_Kilometre", "Area", "Metric",
            Some(unwrap(KILOMETRE.to_base) \o unwrap(KILOMETRE.to_base)),
            Some(unwrap(KILOMETRE.from_base) \o unwrap(KILOMETRE.from_base)),
            None,
            None),
       Unit("Sq_Yard", "Area", "Imperial",
            Some(unwrap(YARD.to_base) \o unwrap(YARD.to_base)),
            Some(unwrap(YARD.from_base) \o unwrap(YARD.from_base)),
            None,
            None),
       Unit("Sq_Foot", "Area", "Imperial",
            Some(unwrap(FOOT.to_base) \o unwrap(FOOT.to_base)),
            Some(unwrap(FOOT.from_base) \o unwrap(FOOT.from_base)),
            Some(unwrap(FOOT.to_system_base) \o unwrap(FOOT.to_system_base)),
            Some(unwrap(FOOT.from_system_base)
                 \o unwrap(FOOT.from_system_base))),
       Unit("Sq_Inch", "Area", "Imperial",
            Some(unwrap(INCH.to_base) \o unwrap(INCH.to_base)),
            Some(unwrap(INCH.from_base) \o unwrap(INCH.from_base)),
            Some(unwrap(INCH.to_system_base) \o unwrap(INCH.to_system_base)),
            Some(unwrap(INCH.from_system_base)
                 \o unwrap(INCH.from_system_base))),
       Unit("Acre", "Area", "Imperial",
            Some(Mul("4046.856422")), Some(Div("4046.856422")),
            Some(Mul("4840.0")), Some(Div("4840.0"))),
       Unit("Sq_Mile", "Area", "Imperial",
            Some(unwrap(MILE.to_base) \o unwrap(MILE.to_base)),
            Some(unwrap(MILE.from_base) \o unwrap(MILE.from_base)),
            Some(unwrap(MILE.to_system_base) \o unwrap(MILE.to_system_base)),
            Some(unwrap(MILE.from_system_base)
                 \o unwrap(MILE.from_system_base))),
       Unit("Sq_Nm", "Area", "Imperial",
            Some(unwrap(NAUTICAL_MILE.to_base) \o unwrap(NAUTICAL_MILE.to_base)),
            Some(unwrap(NAUTICAL_MILE.from_base) \o unwrap(NAUTICAL_MILE.from_base)),
            Some(unwrap(NAUTICAL_MILE.to_system_base) \o unwrap(NAUTICAL_MILE.to_system_base)),
            Some(unwrap(NAUTICAL_MILE.from_system_base)
                 \o unwrap(NAUTICAL_MILE.from_system_base))) >>

-----------------------------------------------------------------------------
(* conversions/volume.rs *)

volume_get_all ==
    << Unit("Litre", "Volume", "Metric", None, None, None, None),
       Unit("Cubic Metre", "Volume", "Metric",
            Some(Mul("1000.0")), Some(Div("1000.0")),
            None, None),
       Unit("CC", "Volume", "Metric",
            Some(Div("1000.0")), Some(Mul("1000.0")),
            None, None),
       Unit("Cubic Kilometre", "Volume", "Metric",
            Some(Mul("1_000_000.0") \o Mul("1_000_000.0")),
            Some(Div("1_000_000.0") \o Div("1_000_000.0")), None, None),
       Unit("Kilo Litre", "Volume", "Metric", Some(from_kilo), Some(to_kilo), None, None),
       Unit("Mega Litre", "Volume", "Metric", Some(from_mega), Some(to_mega), None, None),
       Unit("Giga Litre", "Volume", "Metric", Some(from_giga), Some(to_giga), None, None),
       Unit("Cubic Inch", "Volume", "Imperial",
            Some(Div("61.02374409")), Some(Mul("61.02374409")),
            Some(Mul("1.733871455")), Some(Mul("1.733871455"))),
       Unit("Imp Fl Ounce", "Volume", "Imperial",
            Some(Div("35.19507973")), Some(Mul("35.19507973")),
            None, None),
       Unit("Imp Pint", "Volume", "Imperial",
            Some(Div("1.759753986")), Some(Mul("1.759753986")),
            Some(Mul("20.0")), Some(Div("20.0"))),
       Unit("Imp Quart", "Volume", "Imperial",
            Some(Div("0.8798769932")), Some(Mul("0.8798769932")),
            Some(Mul("40.0")), Some(Div("40.0"))),
       Unit("Imp Gallon", "Volume", "Imperial",
            Some(Div("0.2199692483")), Some(Mul("0.2199692483")),
            Some(Mul("160.0")), Some(Div("160.0"))),
       Unit("US Fl Ounce", "Volume", "US",
            Some(Div("33.81402270")), Some(Mul("33.81402270")),
            None, None),
       Unit("US Pint", "Volume", "US",
            Some(Div("2.113376419")), Some(Mul("2.113376419")),
            Some(Mul("16.0")), Some(Div("16.0"))),
       Unit("US Quart", "Volume", "US",
            Some(Div("1.056688209")), Some(Mul("1.056688209")),
            Some(Mul("32.0")), Some(Div("32.0"))),
       Unit("US Gallon", "Volume", "US",
            Some(Div("0.2641720524")), Some(Mul("0.2641720524")),
            Some(Mul("128.0")), Some(Div("128.0"))) >>

-----------------------------------------------------------------------------
(* conversions/power.rs *)

power_get_all ==
    << Unit("Watt", "Power", "Metric", None, None, None, None),
       Unit("Kilowatt", "Power", "Metric", Some(from_kilo), Some(to_kilo), None, None),
       Unit("Megawatt", "Power", "Metric", Some(from_mega), Some(to_mega), None, None),
       Unit("Gigawatt", "Power", "Metric", Some(from_giga), Some(to_giga), None, None),
       Unit("Horsepower", "Power", "Imperial",
            Some(Mul("745.699872")), Some(Div("745.699872")),
            None, None) >>

-----------------------------------------------------------------------------
(* conversions/torque.rs *)

torque_get_all ==
    << Unit("newton_metre", "Torque", "Metric", None, None, None, None),
       Unit("kilonewton_metre", "Torque", "Metric", Some(from_kilo), Some(to_kilo), None, None),
       Unit("meganewton_metre", "Torque", "Metric", Some(from_mega), Some(to_mega), None, None),
       Unit("giganewton_metre", "Torque", "Metric", Some(from_giga), Some(to_giga), None, None),
       Unit("foot_pound_force", "Torque", "Imperial",
            Some(Mul("1.3558179483314")), Some(Div("1.3558179483314")),
            None, None),
       Unit("inch_pound_force", "Torque", "Imperial",
            Some(Mul("0.1129848290276167")), Some(Div("0.1129848290276167")),
            Some(Div("12.0")), Some(Mul("12.0"))) >>

-----------------------------------------------------------------------------
(* conversions/force.rs *)

force_get_all ==
    << Unit("Newton", "Force", "Metric", None, None, None, None),
       Unit("Kilonewton", "Force", "Metric", Some(from_kilo), Some(to_kilo), None, None),
       Unit("Meganewton", "Force", "Metric", Some(from_mega), Some(to_mega), None, None),
       Unit("Giganewton", "Force", "Metric", Some(from_giga), Some(to_giga), None, None),
       Unit("Pound", "Force", "Imperial",
            Some(Mul("4.4482216152605")), Some(Div("4.4482216152605")),
            None, None),
       Unit("Ounce", "Force", "Imperial",
            Some(Mul("0.278013851")), Some(Div("0.278013851")),
            Some(Div("16.0")), Some(Mul("16.0"))) >>

-----------------------------------------------------------------------------
(* conversions/energy.rs *)

energy_get_all ==
    << Unit("Joule", "Energy", "Metric", None, None, None, None),
       Unit("Kilojoule", "Energy", "Metric", Some(from_kilo), Some(to_kilo), None, None),
       Unit("Megajoule", "Energy", "Metric", Some(from_mega), Some(to_mega), None, None),
       Unit("Gigajoule", "Energy", "Metric", Some(from_giga), Some(to_giga), None, None),
       Unit("BTU", "Energy", "Imperial",
            Some(Mul("1055.05585262")), Some(Div("1055.05585262")),
            None, None),
       Unit("Calorie", "Energy", "Imperial",
            Some(Mul("4.184")), Some(Div("4.184")),
            None, None) >>

-----------------------------------------------------------------------------
(* conversions/mod.rs: the catalogs *)

\* enum Dimension, in declaration order
Dimensions ==
    <<"Length", "Area", "Mass", "Volume", "Temp", "Power", "Torque", "Force",
      "Energy">>

get_units(dimension) ==
    CASE dimension = "Length" -> length_get_all
      [] dimension = "Area" -> area_get_all
      [] dimension = "Mass" -> mass_get_all
      [] dimension = "Volume" -> volume_get_all
      [] dimension = "Temp" -> temperature_get_all
      [] dimension = "Power" -> power_get_all
      [] dimension = "Torque" -> torque_get_all
      [] dimension = "Force" -> force_get_all
      [] dimension = "Energy" -> energy_get_all

-----------------------------------------------------------------------------
(* The expressions evaluated *)

Alphabet == {"2", ".", "+", "-", "*", "/", "^", "(", ")", " ", "l", "n"}

RECURSIVE StringsOfLen(_)
StringsOfLen(n) ==
    IF n = 0 THEN {<<>>}
    ELSE {Append(s, c) : s \in StringsOfLen(n - 1), c \in Alphabet}

ShortInputs == UNION {StringsOfLen(n) : n \in 0..MaxLen}

BinaryChars == {"+", "-", "*", "/", "^"}

\* operator chains a o1 b o2 c [o3 d], bare and with one pair of parentheses
ChainInputs ==
    {<<"2", o1, "3", o2, "4">> : o1 \in BinaryChars, o2 \in BinaryChars}
    \cup {<<"(", "2", o1, "3", ")", o2, "4">> : o1 \in BinaryChars, o2 \in BinaryChars}
    \cup {<<"2", o1, "(", "3", o2, "4", ")">> : o1 \in BinaryChars, o2 \in BinaryChars}
    \cup {<<"2", o1, "3", o2, "4", o3, "2">> :
            o1 \in BinaryChars, o2 \in BinaryChars, o3 \in BinaryChars}
    \cup {<<"-", "2", o1, "-", "3", o2, "4">> : o1 \in BinaryChars, o2 \in BinaryChars}

\* the expressions of evaluator_tests.rs and of the error paths
TestInputs ==
    { <<"3", "*", "4", "*">>,
      <<"s", "q", "r", "t", "(", ")">>,
      <<"s", "q", "r", "t", "(", "/">>,
      <<"s", "q", "r", "t">>,
      <<"3", "*", "/", "2">>,
      <<"p", "o", "o", "p", "(", "3", ")">>,
      <<"3", " ", "+", " ", "5", " ", "*", " ", "(", "2", " ", "-", " ", "8", ")",
        " ", "^", " ", "2">>,
      <<"2", " ", "^", " ", "3", " ", "^", " ", "2">>,
      <<"2", "*", "U+03C0">>,
      <<"2", "*", "e">>,
      <<"C", "/", "2">>,
      <<"e", "x", "p", "(", "e", ")">>,
      <<"(", "1", "+", "2">>,
      <<"1", "+", "2", ")">>,
      <<"(", "(", "1", "+", "2", ")">>,
      <<"(", "1", "+", "2", ")", ")">>,
      <<"1", ".", "2", ".", "3">>,
      <<"1", ".", ".", "2">>,
      <<"1", ".", "5", "+", ".", "5">>,
      <<".", "x">>,
      <<"2", "+", "l", "n", "#">>,
      <<"l", "n", "x", "(", "2", ")">>,
      <<"(", "*", "2">>,
      <<"(", "*", ")">>,
      <<"(", "3", "*">>,
      <<"(", "-">>,
      <<"s", "q", "r", "t", "(", "3", "*">>,
      <<"s", "q", "r", "t", "(", "-">>,
      <<"s", "q", "r", "t", "(", "3", "*", "3", " ", "+", " ", "4", "^", "2", ")">>,
      <<"s", "q", "r", "t", "(", "2">>,
      <<"s", "q", "r", "t", "(", "2", ")", ")">>,
      <<"(", "s", "q", "r", "t", " ", "2", ")">>,
      <<"(", "s", "i", "n", ")">>,
      <<"s", "i", "n", "(", "3", "0", ")">>,
      <<"s", "i", "n", "h", "(", "2", ")">>,
      <<"2", " ", "^", " ", "l", "o", "g", "2", "(", "7", ")">>,
      <<"e", "x", "p", "(", "l", "n", "(", "7", ")", ")">>,
      <<"a", "b", "s", "(", "-", "7", ".", "4", "5", "6", ")">>,
      <<"-", "-", "5">>,
      <<"l", "n", "(", "2", ")">>,
      <<"2", "\n", "+", "2">>,
      <<"a", "c", "o", "s", "e", "c", "(", "2", ")">>,
      <<"l", "o", "g", "2", "(", "8", ")">>,
      <<"l", "o", "g", "(", "8", ")">>,
      <<"s", "i", "n", "2">>,
      <<"s", "i", "n", "x">>,
      <<"s", "i", "n", "2", "(", "3", ")">>,
      <<"2", "*", "c", "o", "s", "h", "(", "2", ")">>,
      <<"2", "/", "0">>,
      <<"0", "/", "0">>,
      <<"-", "2", "/", "(", "2", "-", "2", ")">>,
      <<"s", "q", "r", "t", "(", "-", "7", ".", "4", "5", "6", ")">>,
      <<"l", "n", "(", "0", ")", "^", "-", "2">> }

FactorialName == <<"f", "a", "c", "t", "o", "r", "i", "a", "l">>

\* factorial(arg)
FactorialOf(arg) == FactorialName \o <<"(">> \o arg \o <<")">>

\* the calls of test_factorial and the arguments around the three branches
FactorialInputs ==
    {FactorialOf(<<d>>) : d \in Digits}
    \cup {FactorialOf(arg) : arg \in {<<"5", ".", "5">>, <<"3", "0", "0">>,
                                       <<"1", "7", "0">>, <<"1", "7", "1">>,
                                       <<"1", "7", "0", ".", "5">>,
                                       <<"-", "3">>, <<"-", "1", ".", "5">>,
                                       <<"l", "n", "(", "2", ")">>}}

\* n copies of the character c
RECURSIVE Repeat(_, _)
Repeat(c, n) == IF n = 0 THEN <<>> ELSE <<c>> \o Repeat(c, n - 1)

\* an operand behind n minus signs, inside n pairs of parentheses and behind
\* n pairs of a minus and a parenthesis
NestedInputs ==
    UNION {{Repeat("-", n) \o <<"5">>,
            Repeat("(", n) \o <<"5">> \o Repeat(")", n),
            Repeat("-", n) \o Repeat("(", n) \o <<"5">> \o Repeat(")", n),
            Repeat("(", n) \o Repeat("-", n) \o <<"5">> \o Repeat(")", n)} :
           n \in 1..MaxDepth}

\* a unary minus next to every binary operator
UnaryInputs ==
    {<<"-", "2", o, "2">> : o \in BinaryChars}
    \cup {<<"2", o, "-", "3">> : o \in BinaryChars}
    \cup {<<"2", "^", "-", "1">>, <<"2", "*", "-", "-", "3">>,
          <<"-", "l", "n", "(", "1", ")">>}

\* two operands with no operator between them, and an expression that is
\* already the newest entry of the history
JuxtaposedInputs ==
    { <<"2", " ", "3">>, <<"2", "(", "3", ")">>,
      <<"2", " ", "s", "i", "n", "(", "0", ")">>, <<"2", "+", "2">> }

\* the expressions evaluated in every angle mode and on every history
LongInputs ==
    {<<>>} \cup ChainInputs \cup TestInputs \cup FactorialInputs
    \cup NestedInputs \cup UnaryInputs \cup JuxtaposedInputs

\* the history the process starts with: empty, or what the file held
InitialHistories ==
    { <<>>, <<[expr |-> <<"2", "+", "2">>, value |-> Rat(4, 1)]>> }

NoOutcome == [kind |-> "None"]

\* every unit of the nine catalogs
AllUnits ==
    UNION {{get_units(Dimensions[d])[n] :
               n \in 1..Len(get_units(Dimensions[d]))} :
           d \in 1..Len(Dimensions)}

\* a conversion asked for: the number is the one every step is applied to
Conversion(from, to) ==
    [value |-> <<>>, from |-> from, to |-> to, result |-> None, back |-> None]

NoConversion == Conversion(None, None)

\* no Parser, no CalcWindow and no preference have been made
NoParser == <<>>
NoWindow == <<>>
NoPreferences == <<>>

-----------------------------------------------------------------------------
(* The state machine: one call of Evaluator::evaluate on a fresh process.  *)
(* Every short expression is evaluated in the default angle mode on an     *)
(* empty history, the others in every mode and on every initial history.   *)

Init ==
    /\ \/ /\ expression \in ShortInputs
          /\ angle_mode = "Degrees"
          /\ history = <<>>
          /\ poisoned = FALSE
       \/ /\ expression \in LongInputs
          /\ angle_mode \in AngleModes
          /\ history \in InitialHistories
          /\ poisoned \in BOOLEAN
    /\ outcome = NoOutcome
    /\ history_max_size = HISTORY_SIZE
    /\ file = history
    /\ conv = NoConversion
    /\ parser = NoParser
    /\ win = NoWindow
    /\ prefs = NoPreferences
    /\ pc = "ready"

\* an add that skips an expression that is already the newest entry
locked_add_Dedup(entries, entry) ==
    IF poisoned \/ (entries # <<>> /\ entries[1].expr = entry.expr)
    THEN entries
    ELSE History_add(entries, entry, HISTORY_SIZE)

\* History::add behind the lock: entries.write() is Err when the lock is
\* poisoned, and then the entry is dropped with a warning
locked_add(entries, entry) ==
    IF poisoned THEN entries ELSE History_add(entries, entry, HISTORY_SIZE)

\* HistoryManager::save: serialising reads the lock, so a poisoned lock
\* fails the save as a failed write does; the failure is only logged
save(entries, written) ==
    IF written /\ ~poisoned THEN entries ELSE file

\* the inspect closure reporting a failed recording as the result
inspect_FailOnSave(r) ==
    /\ IF r.kind = "Ok"
       THEN /\ history' = locked_add(history,
                              [expr |-> expression, value |-> r.value])
            /\ \E written \in BOOLEAN :
                  /\ file' = save(history', written)
                  /\ outcome' = IF written /\ ~poisoned THEN r
                                ELSE Err(<<"Failed to write history.">>)
       ELSE outcome' = r /\ UNCHANGED <<history, file>>

\* the inspect closure of Evaluator::evaluate: on Ok the entry is added to
\* the history and the history is saved; the write of the file may fail
inspect(r) ==
    /\ outcome' = r
    /\ IF r.kind = "Ok"
       THEN /\ history' = locked_add(history,
                              [expr |-> expression, value |-> r.value])
            /\ \E written \in BOOLEAN :
                  file' = save(history', written)
       ELSE UNCHANGED <<history, file>>

\* one call of Evaluator::evaluate
Evaluate ==
    /\ pc = "ready"
    /\ inspect(Evaluator_evaluate(expression, angle_mode))
    /\ pc' = "done"
    /\ UNCHANGED <<expression, angle_mode, history_max_size, poisoned, conv, parser,
                   win, prefs>>

Next == Evaluate

Spec == Init /\ [][Next]_vars

-----------------------------------------------------------------------------
(* The converter: convert applied to a number for every ordered pair of    *)
(* catalog units, and then applied to its result in the other direction.   *)

ConvInit ==
    /\ expression = <<>>
    /\ angle_mode = "Degrees"
    /\ outcome = NoOutcome
    /\ history = <<>>
    /\ history_max_size = HISTORY_SIZE
    /\ file = <<>>
    /\ poisoned = FALSE
    /\ parser = NoParser
    /\ win = NoWindow
    /\ prefs = NoPreferences
    /\ conv \in {Conversion(from, to) : from \in AllUnits, to \in AllUnits}
    /\ pc = "convert"

\* convert(&value, from, to)
Convert ==
    /\ pc = "convert"
    /\ conv' = [conv EXCEPT
                   !.result = Some(convert(conv.value, conv.from, conv.to))]
    /\ pc' = "converted"
    /\ UNCHANGED <<expression, angle_mode, outcome, history, history_max_size, file,
                   poisoned, parser, win, prefs>>

\* convert(&result, to, from)
ConvertBack ==
    /\ pc = "converted"
    /\ conv' = [conv EXCEPT
                   !.back = Some(convert(conv.result[1], conv.to, conv.from))]
    /\ pc' = "returned"
    /\ UNCHANGED <<expression, angle_mode, outcome, history, history_max_size, file,
                   poisoned, parser, win, prefs>>

ConvNext == Convert \/ ConvertBack

ConvSpec == ConvInit /\ [][ConvNext]_vars

-----------------------------------------------------------------------------
(* The history: History::add called again and again on a History::new of   *)
(* a small max_size, and on the history of the process, whose max_size is  *)
(* HISTORY_SIZE and whose entries are what the file held, in any number.   *)
(* The value of an entry tells when it was added: the entries of the file  *)
(* carry 0, -1, ... from the newest on, the k-th add carries k.            *)

Loaded(n) == [i \in 1..n |-> [expr |-> <<"2">>, value |-> Rat(1 - i, 1)]]

\* the number of add calls made so far
Added == IF history # <<>> /\ history[1].value.n > 0 THEN history[1].value.n ELSE 0

HistInit ==
    /\ expression = <<>>
    /\ angle_mode = "Degrees"
    /\ outcome = NoOutcome
    /\ \/ /\ history_max_size \in 1..MaxSize
          /\ history = <<>>
       \/ /\ history_max_size = HISTORY_SIZE
          /\ history \in {Loaded(n) : n \in {0, 1, HISTORY_SIZE - 1, HISTORY_SIZE,
                                              HISTORY_SIZE + 1, HISTORY_SIZE + MaxSize}}
    /\ file = history
    /\ poisoned = FALSE
    /\ conv = NoConversion
    /\ parser = NoParser
    /\ win = NoWindow
    /\ prefs = NoPreferences
    /\ pc = "history"

\* History::add((expression, value)); nothing is saved by it
HistoryAdd ==
    /\ pc = "history"
    /\ Added < MaxAdds
    /\ \E e \in {<<"2">>, <<"2", "+", "2">>} :
          history' = History_add(history,
                                 [expr |-> e, value |-> Rat(Added + 1, 1)],
                                 history_max_size)
    /\ UNCHANGED <<expression, angle_mode, outcome, history_max_size, file,
                   poisoned, conv, parser, win, prefs, pc>>

HistNext == HistoryAdd

HistSpec == HistInit /\ [][HistNext]_vars

-----------------------------------------------------------------------------
(* evaluator/mod.rs: AngleMode *)

\* impl Default for AngleMode
AngleMode_default == "Degrees"

\* a Display that writes the name of the variant
AngleMode_to_string_Variant(mode) == mode

\* impl Display for AngleMode
AngleMode_to_string(mode) ==
    CASE mode = "Degrees" -> "Degrees"
      [] mode = "Radians" -> "Radians"
      [] mode = "Gradians" -> "Grads"

\* AngleMode::get_from_name
get_from_name(name) ==
    CASE name = "Degrees" -> "Degrees"
      [] name = "Radians" -> "Radians"
      [] name = "Grads" -> "Gradians"
      [] OTHER -> AngleMode_default

-----------------------------------------------------------------------------
(* ui/preferences.rs: the map of the PreferenceManager, a None for a key    *)
(* that is not in it                                                       *)

ANGLE_MODE == "angle-mode"
THEME == "theme"
PrefKeys == {ANGLE_MODE, THEME, "window-width", "window-height"}

\* PreferenceManager::get
PreferenceManager_get(map, key) == map[key]

\* PreferenceManager::put: insert, then store, whose failure is ignored
PreferenceManager_put(map, key, value) == [map EXCEPT ![key] = Some(value)]

\* the preferences a process may start with: none, or an angle mode stored
\* by an earlier run or written by hand
StoredPreferences ==
    {[key \in PrefKeys |-> IF key = ANGLE_MODE THEN am ELSE None] :
        am \in {None, Some("Radians"), Some("Grads"), Some("Gradians")}}

-----------------------------------------------------------------------------
(* The Calc of the window: it owns the angle mode and evaluates a text     *)
(* through the Evaluator in that mode.                                     *)

Calc_default == [angle_mode |-> AngleMode_default]

Calc_set_angle_mode(calc, mode) == [calc EXCEPT !.angle_mode = mode]

Calc_angle_mode(calc) == calc.angle_mode

Calc_evaluate(calc, chars) == Evaluator_evaluate(chars, calc.angle_mode)

-----------------------------------------------------------------------------
(* ui/calc_window.rs: the content of the editor is its text and the place  *)
(* of the cursor in it; no part of the text is selected.                   *)

Content_default == [text |-> <<>>, cursor |-> 0]

\* Action::Edit(Edit::Insert(c))
Insert(content, c) ==
    [text |-> SubSeq(content.text, 1, content.cursor) \o <<c>>
                \o SubSeq(content.text, content.cursor + 1, Len(content.text)),
     cursor |-> content.cursor + 1]

\* `for c in s.chars() { self.content.perform(Action::Edit(Edit::Insert(c))); }`
RECURSIVE InsertAll(_, _)
InsertAll(content, s) ==
    IF s = <<>> THEN content ELSE InsertAll(Insert(content, Head(s)), Tail(s))

\* Action::Edit(Edit::Backspace)
Backspace(content) ==
    IF content.cursor = 0 THEN content
    ELSE [text |-> SubSeq(content.text, 1, content.cursor - 1)
                     \o SubSeq(content.text, content.cursor + 1,
                               Len(content.text)),
          cursor |-> content.cursor - 1]

\* Action::Move(motion)
Move(content, motion) ==
    CASE motion = "Left" ->
           [content EXCEPT !.cursor = IF @ = 0 THEN 0 ELSE @ - 1]
      [] motion = "Right" ->
           [content EXCEPT !.cursor = IF @ = Len(content.text) THEN @ ELSE @ + 1]
      [] motion = "DocumentStart" -> [content EXCEPT !.cursor = 0]
      [] motion = "DocumentEnd" -> [content EXCEPT !.cursor = Len(content.text)]

\* str::trim
RECURSIVE trim_start(_), trim_end(_)
trim_start(chars) ==
    IF chars # <<>> /\ Head(chars) \in {" ", "\n"} THEN trim_start(Tail(chars))
    ELSE chars

trim_end(chars) ==
    IF chars # <<>> /\ chars[Len(chars)] \in {" ", "\n"}
    THEN trim_end(SubSeq(chars, 1, Len(chars) - 1))
    ELSE chars

trim(chars) == trim_end(trim_start(chars))

\* the theme of ui::lcd_theme and the themes of Theme::ALL offered
LcdTheme == "LCD"
Themes == {"Dark"}

\* theme_by_name
theme_by_name(name) ==
    IF name # None /\ name[1] \in Themes THEN name[1] ELSE LcdTheme

\* impl Default for CalcWindow, on the preferences found
CalcWindow_default(map) ==
    [theme |-> theme_by_name(PreferenceManager_get(map, THEME)),
     content |-> Content_default,
     result |-> None,
     calc |-> IF PreferenceManager_get(map, ANGLE_MODE) # None
              THEN Calc_set_angle_mode(Calc_default,
                     get_from_name(PreferenceManager_get(map, ANGLE_MODE)[1]))
              ELSE Calc_default,
     is_converting |-> FALSE,
     convert_from |-> None,
     convert_to |-> None,
     window_width |-> 0,
     window_height |-> 0,
     window_x |-> 0,
     window_y |-> 0]

\* conversions::try_convert: the number of convert, or 0.0 with a warning
\* when a unit is missing
try_convert(value, from, to) ==
    IF from # None /\ to # None
    THEN [of |-> value, steps |-> convert(<<>>, from[1], to[1]), warned |-> FALSE]
    ELSE [of |-> Rat(0, 1), steps |-> <<>>, warned |-> TRUE]

\* what view shows: the angle mode, the result and, when converting, the two
\* unit names and the converted result
view(w) ==
    [mode |-> AngleMode_to_string(Calc_angle_mode(w.calc)),
     result |-> w.result,
     converting |-> w.is_converting,
     conv_from |-> IF w.is_converting /\ w.convert_from # None
                   THEN Some(w.convert_from[1].name) ELSE None,
     conv_to |-> IF w.is_converting /\ w.convert_to # None
                 THEN Some(w.convert_to[1].name) ELSE None,
     converted_result |->
        IF w.is_converting /\ w.result # None /\ w.result[1].kind = "Ok"
        THEN Some(try_convert(w.result[1].value, w.convert_from, w.convert_to))
        ELSE None]

-----------------------------------------------------------------------------
(* The window: CalcWindow::update on any message in any order.  A Task a   *)
(* handler returns is a message handled later, and every message may come  *)
(* at any time.  An evaluation is recorded in the history as Spec shows;   *)
(* the window keeps what the call returned.                                *)

\* the strings of the buttons and menus pressed: a digit, a constant and
\* the parenthesis button, which is Func("")
CharStrings == {<<"2">>}
ConstantStrings == {<<"e">>}
FuncStrings == {<<>>}

\* the entries the history menu offers
HistoryItems == {h[1] : h \in InitialHistories \ {<<>>}}

\* the units the conversion menu offers for one dimension
MenuUnits == {temperature_get_all[n] : n \in 1..MaxUnits}

WindowSizes == {<<1, 1>>}

WinInit ==
    /\ expression = <<>>
    /\ angle_mode = "Degrees"
    /\ outcome = NoOutcome
    /\ history = <<>>
    /\ history_max_size = HISTORY_SIZE
    /\ file = <<>>
    /\ poisoned = FALSE
    /\ conv = NoConversion
    /\ parser = NoParser
    /\ prefs \in StoredPreferences
    /\ win = CalcWindow_default(prefs)
    /\ pc = "window"

Rest == <<expression, angle_mode, outcome, history, history_max_size, file,
          poisoned, conv, parser, pc>>

Message_Char ==
    /\ pc = "window"
    /\ \E s \in CharStrings :
          /\ Len(win.content.text) + Len(s) <= MaxText
          /\ win' = [win EXCEPT !.content = InsertAll(@, s)]
    /\ UNCHANGED <<Rest, prefs>>

Message_Constant ==
    /\ pc = "window"
    /\ \E s \in ConstantStrings :
          /\ Len(win.content.text) + Len(s) <= MaxText
          /\ win' = [win EXCEPT !.content = InsertAll(@, s)]
    /\ UNCHANGED <<Rest, prefs>>

\* clipboard::write: nothing of the window changes
Message_Copy ==
    /\ pc = "window"
    /\ win.result # None /\ win.result[1].kind = "Ok"
    /\ UNCHANGED vars

\* the branch without a selection; the Task is Message::MoveLeft
Message_Func ==
    /\ pc = "window"
    /\ \E s \in FuncStrings :
          /\ Len(win.content.text) + Len(s) + 2 <= MaxText
          /\ win' = [win EXCEPT !.content =
                        Insert(Insert(InsertAll(@, s), "("), ")")]
    /\ UNCHANGED <<Rest, prefs>>

\* Action::Edit(Edit::Enter) evaluates (the Task is Message::MoveEnd), any
\* other action is performed on the content
Message_EditorAction ==
    /\ pc = "window"
    /\ \E action \in {"Enter", "Left", "Right"} :
          win' = IF action = "Enter"
                 THEN [win EXCEPT !.result =
                          Some(Calc_evaluate(win.calc, trim(win.content.text)))]
                 ELSE [win EXCEPT !.content = Move(@, action)]
    /\ UNCHANGED <<Rest, prefs>>

Message_History ==
    /\ pc = "window"
    /\ \E item \in HistoryItems :
          win' = [win EXCEPT !.content = InsertAll(Content_default, item.expr),
                             !.result = Some(Ok(item.value))]
    /\ UNCHANGED <<Rest, prefs>>

Message_Evaluate ==
    /\ pc = "window"
    /\ win' = [win EXCEPT !.result =
                  Some(Calc_evaluate(win.calc, trim(win.content.text)))]
    /\ UNCHANGED <<Rest, prefs>>

\* a Clear that leaves the units of the conversion set
Message_Clear_KeepsConverting ==
    /\ pc = "window"
    /\ win' = [win EXCEPT !.content = Content_default,
                          !.convert_from = None,
                          !.convert_to = None,
                          !.result = None]
    /\ UNCHANGED <<Rest, prefs>>

Message_Clear ==
    /\ pc = "window"
    /\ win' = [win EXCEPT !.content = Content_default,
                          !.is_converting = FALSE,
                          !.convert_from = None,
                          !.convert_to = None,
                          !.result = None]
    /\ UNCHANGED <<Rest, prefs>>

Message_MoveLeft ==
    /\ pc = "window"
    /\ win' = [win EXCEPT !.content = Move(@, "Left")]
    /\ UNCHANGED <<Rest, prefs>>

Message_MoveRight ==
    /\ pc = "window"
    /\ win' = [win EXCEPT !.content = Move(@, "Right")]
    /\ UNCHANGED <<Rest, prefs>>

Message_MoveEnd ==
    /\ pc = "window"
    /\ win' = [win EXCEPT !.content = Move(@, "DocumentEnd")]
    /\ UNCHANGED <<Rest, prefs>>

Message_BackSpace ==
    /\ pc = "window"
    /\ win' = [win EXCEPT !.content = Backspace(@)]
    /\ UNCHANGED <<Rest, prefs>>

\* the menu sends two units of one dimension; the Task, when there is a
\* text, is Message::Evaluate
Message_ConvertPerform ==
    /\ pc = "window"
    /\ \E from_unit \in MenuUnits, to_unit \in MenuUnits :
          win' = [win EXCEPT !.is_converting = TRUE,
                             !.convert_from = Some(from_unit),
                             !.convert_to = Some(to_unit)]
    /\ UNCHANGED <<Rest, prefs>>

Message_ThemeChanged ==
    /\ pc = "window"
    /\ \E t \in Themes :
          /\ win' = [win EXCEPT !.theme = t]
          /\ prefs' = PreferenceManager_put(prefs, THEME, t)
    /\ UNCHANGED Rest

Message_WindowResized ==
    /\ pc = "window"
    /\ \E size \in WindowSizes :
          win' = [win EXCEPT !.window_width = size[1], !.window_height = size[2]]
    /\ UNCHANGED <<Rest, prefs>>

Message_WindowMoved ==
    /\ pc = "window"
    /\ \E p \in WindowSizes :
          win' = [win EXCEPT !.window_x = p[1], !.window_y = p[2]]
    /\ UNCHANGED <<Rest, prefs>>

\* save_window_size
Message_WindowClosed ==
    /\ pc = "window"
    /\ prefs' = PreferenceManager_put(
                   PreferenceManager_put(prefs, "window-width", win.window_width),
                   "window-height", win.window_height)
    /\ UNCHANGED <<Rest, win>>

\* the match of the ToggleMode arm
ToggledMode(mode) ==
    CASE mode = "Degrees" -> "Radians"
      [] mode = "Radians" -> "Gradians"
      [] mode = "Gradians" -> "Degrees"

Message_ToggleMode ==
    /\ pc = "window"
    /\ win' = [win EXCEPT !.calc =
                  Calc_set_angle_mode(@, ToggledMode(Calc_angle_mode(@)))]
    /\ prefs' = PreferenceManager_put(prefs, ANGLE_MODE,
                   AngleMode_to_string(Calc_angle_mode(win'.calc)))
    /\ UNCHANGED Rest

Message_Null ==
    /\ pc = "window"
    /\ UNCHANGED vars

WinNext ==
    \/ Message_Char
    \/ Message_Constant
    \/ Message_Copy
    \/ Message_Func
    \/ Message_EditorAction
    \/ Message_History
    \/ Message_Evaluate
    \/ Message_Clear
    \/ Message_MoveLeft
    \/ Message_MoveRight
    \/ Message_MoveEnd
    \/ Message_BackSpace
    \/ Message_ConvertPerform
    \/ Message_ThemeChanged
    \/ Message_WindowResized
    \/ Message_WindowMoved
    \/ Message_WindowClosed
    \/ Message_ToggleMode
    \/ Message_Null

WinSpec == WinInit /\ [][WinNext]_vars

-----------------------------------------------------------------------------
(* The parser, step by step: Parser::new(tokens).parse() on the tokens of  *)
(* every expression that tokenizes.  The call runs on one thread and is    *)
(* not interrupted, so a step that can be taken is taken.                  *)

ParseInit ==
    /\ expression \in {e \in ShortInputs \cup LongInputs :
                          tokenize(e).kind = "Ok"}
    /\ angle_mode = "Degrees"
    /\ outcome = NoOutcome
    /\ history = <<>>
    /\ history_max_size = HISTORY_SIZE
    /\ file = <<>>
    /\ poisoned = FALSE
    /\ conv = NoConversion
    /\ parser = Parser_new(tokenize(expression).value)
    /\ win = NoWindow
    /\ prefs = NoPreferences
    /\ pc = "parse"

\* a step of parse_add_sub, parse_mul_div or parse_exponent
LevelStep ==
    /\ pc = "parse"
    /\ parser.stack # <<>>
    /\ Top(parser).fn # "parse_primary"
    /\ parser' = level_step(Fresh(parser), Top(parser))
    /\ UNCHANGED <<expression, angle_mode, outcome, history, history_max_size, file,
                   poisoned, conv, win, prefs, pc>>

\* a step of parse_primary
PrimaryStep ==
    /\ pc = "parse"
    /\ parser.stack # <<>>
    /\ Top(parser).fn = "parse_primary"
    /\ parser' = primary_step(Fresh(parser), Top(parser))
    /\ UNCHANGED <<expression, angle_mode, outcome, history, history_max_size, file,
                   poisoned, conv, win, prefs, pc>>

\* parse returns to its caller
ParseReturn ==
    /\ pc = "parse"
    /\ parser.stack = <<>>
    /\ pc' = "parsed"
    /\ parser' = Fresh(parser)
    /\ UNCHANGED <<expression, angle_mode, outcome, history, history_max_size, file,
                   poisoned, conv, win, prefs>>

ParseNext == LevelStep \/ PrimaryStep \/ ParseReturn

ParseSpec == ParseInit /\ [][ParseNext]_vars /\ WF_vars(ParseNext)

-----------------------------------------------------------------------------
(* Vocabulary of the properties *)

\* the tokens of the expression, <<>> when tokenize does not return Ok
Tokens ==
    LET t == tokenize(expression) IN IF t.kind = "Ok" THEN t.value ELSE <<>>

Tokenized == tokenize(expression).kind = "Ok"

\* a token sequence that is one complete expression: parse succeeds and
\* leaves no token unread
WellFormed(tokens) ==
    LET r == parse(tokens) IN r.ok /\ r.current = Len(tokens)

\* binding strength: 1 for + and -, 2 for * and /, 3 for ^, 4 for an operand
Level(op) ==
    CASE op.type \in {"Plus", "Minus"} -> 1
      [] op.type \in {"Multiply", "Divide"} -> 2
      [] op.type = "Exponent" -> 3

NodeLevel(ast) == IF ast.node = "BinaryOp" THEN Level(ast.op) ELSE 4

\* the tokens of a tree without parentheses, read left to right
RECURSIVE Flatten(_)
Flatten(ast) ==
    CASE ast.node = "Number" -> <<Number(ast.value)>>
      [] ast.node = "UnaryOp" -> <<ast.op>> \o Flatten(ast.expr)
      [] ast.node = "BinaryOp" ->
           Flatten(ast.left) \o <<ast.op>> \o Flatten(ast.right)
      [] ast.node = "Function" ->
           <<UnaryFunction(ast.func), OpenParen>> \o Flatten(ast.expr)
              \o <<CloseParen>>

\* no operand of an operator is an operator that binds less tightly, and a
\* unary minus applies to an operand
RECURSIVE PrecedenceOrdered(_)
PrecedenceOrdered(ast) ==
    CASE ast.node = "Number" -> TRUE
      [] ast.node = "UnaryOp" ->
           NodeLevel(ast.expr) = 4 /\ PrecedenceOrdered(ast.expr)
      [] ast.node = "BinaryOp" ->
           /\ NodeLevel(ast.left) >= Level(ast.op)
           /\ NodeLevel(ast.right) >= Level(ast.op)
           /\ PrecedenceOrdered(ast.left) /\ PrecedenceOrdered(ast.right)
      [] ast.node = "Function" -> PrecedenceOrdered(ast.expr)

\* no right operand of an operator is an operator of the same level
RECURSIVE LeftGrouped(_)
LeftGrouped(ast) ==
    CASE ast.node = "Number" -> TRUE
      [] ast.node = "UnaryOp" -> LeftGrouped(ast.expr)
      [] ast.node = "BinaryOp" ->
           /\ NodeLevel(ast.right) # Level(ast.op)
           /\ LeftGrouped(ast.left) /\ LeftGrouped(ast.right)
      [] ast.node = "Function" -> LeftGrouped(ast.expr)

ParenFree(tokens) ==
    \A n \in 1..Len(tokens) :
        tokens[n].type \notin {"OpenParen", "CloseParen", "UnaryFunction"}

\* an operand that occurs in no expression, standing for a parenthesis
Hole == Number([k |-> "const", name |-> "hole"])

\* the tree with its Hole leaf replaced by sub
RECURSIVE Subst(_, _)
Subst(ast, sub) ==
    CASE ast.node = "Number" -> IF Number(ast.value) = Hole THEN sub ELSE ast
      [] ast.node = "UnaryOp" -> UnaryOp(ast.op, Subst(ast.expr, sub))
      [] ast.node = "BinaryOp" ->
           BinaryOp(Subst(ast.left, sub), ast.op, Subst(ast.right, sub))
      [] ast.node = "Function" -> FunctionNode(ast.func, Subst(ast.expr, sub))

N(n) == NumberNode(Rat(n, 1))

ComplexExpression ==
    <<"3", " ", "+", " ", "5", " ", "*", " ", "(", "2", " ", "-", " ", "8", ")",
      " ", "^", " ", "2">>

ExponentChain == <<"2", " ", "^", " ", "3", " ", "^", " ", "2">>

-----------------------------------------------------------------------------
(* C1: evaluate of the empty string returns Err("Please supply an          *)
(* expression to evaluate") (the message of the test before tokenize and   *)
(* parse, not the parser's message for an empty token stream) and leaves   *)
(* the history and its file as they were.                                  *)
C1_EmptyExpression ==
    [][expression = <<>> =>
          /\ outcome' = Err(MsgEmpty)
          /\ history' = history
          /\ file' = file]_vars

C1_Witness ==
    pc = "done" /\ expression = <<>> /\ outcome.kind = "Err" /\ history # <<>>

-----------------------------------------------------------------------------
(* C2: the tree built by parse groups operators by precedence.  For every  *)
(* well-formed token sequence without parentheses the tree reads back as   *)
(* the tokens and no operand of an operator is an operator of lower        *)
(* precedence; a parenthesised sub-expression is one operand: the tree of  *)
(* pre ( mid ) post is the tree of pre X post with the tree of mid in the  *)
(* place of X; and "3 + 5 * (2 - 8) ^ 2" is 3 + (5 * ((2 - 8) ^ 2)) = 183. *)
C2_ParenIsOperand(tokens) ==
    \A a \in 1..Len(tokens) : \A b \in a + 1..Len(tokens) :
        LET mid == SubSeq(tokens, a + 1, b - 1)
            one == SubSeq(tokens, 1, a - 1) \o <<Hole>>
                     \o SubSeq(tokens, b + 1, Len(tokens))
        IN  ( /\ tokens[a].type = "OpenParen"
              /\ tokens[b].type = "CloseParen"
              /\ (a = 1 \/ tokens[a - 1].type # "UnaryFunction")
              /\ WellFormed(mid) )
            => /\ WellFormed(one)
               /\ parse(tokens).node = Subst(parse(one).node, parse(mid).node)

C2_Precedence ==
    /\ (Tokenized /\ WellFormed(Tokens) /\ ParenFree(Tokens))
          => /\ Flatten(parse(Tokens).node) = Tokens
             /\ PrecedenceOrdered(parse(Tokens).node)
    /\ (Tokenized /\ WellFormed(Tokens)) => C2_ParenIsOperand(Tokens)
    /\ expression = ComplexExpression
          => /\ parse(Tokens).node =
                  BinaryOp(N(3), Plus,
                      BinaryOp(N(5), Multiply,
                          BinaryOp(BinaryOp(N(2), Minus, N(8)), Exponent, N(2))))
             /\ pc = "done" => outcome = Ok(Rat(183, 1))

C2_Witness ==
    /\ pc = "done" /\ expression = ComplexExpression
    /\ outcome = Ok(Rat(183, 1))

-----------------------------------------------------------------------------
(* C3: operators of one level group left to right, the exponent included:  *)
(* in the tree of a well-formed token sequence without parentheses no      *)
(* right operand of an operator is an operator of the same level, a o1 b   *)
(* o2 c with o1, o2 of one level is (a o1 b) o2 c, and "2 ^ 3 ^ 2" is 64.  *)
C3_LeftToRight ==
    /\ (Tokenized /\ WellFormed(Tokens) /\ ParenFree(Tokens))
          => LeftGrouped(parse(Tokens).node)
    /\ ( /\ Tokenized /\ Len(Tokens) = 5
         /\ \A n \in {1, 3, 5} : Tokens[n].type = "Number"
         /\ \A n \in {2, 4} : Tokens[n].type \in
                {"Plus", "Minus", "Multiply", "Divide", "Exponent"}
         /\ Level(Tokens[2]) = Level(Tokens[4]) )
          => parse(Tokens).node =
               BinaryOp(BinaryOp(NumberNode(Tokens[1].value), Tokens[2],
                                 NumberNode(Tokens[3].value)),
                        Tokens[4], NumberNode(Tokens[5].value))
    /\ (pc = "done" /\ expression = ExponentChain)
          => outcome = Ok(Rat(64, 1))

C3_Witness ==
    pc = "done" /\ expression = ExponentChain /\ outcome = Ok(Rat(64, 1))

-----------------------------------------------------------------------------
(* C4: where the name of a registered constant stands, followed by nothing *)
(* or by a character that is not alphanumeric, tokenize emits Number(value *)
(* of the constant) and goes on after the name; "2*pi" tokenizes.          *)
SimpleChars == Digits \cup {".", "+", "-", "*", "/", "^", "(", ")", " ", "\n"}

C4_ConstantIsNumber ==
    /\ \A i \in 0..Len(expression) - 1 : \A n \in 1..Len(constant_register) :
          LET c    == constant_register[n]
              pre  == tokenize(SubSeq(expression, 1, i))
              upto == SubSeq(expression, 1, i + Len(c.name))
          IN  ( /\ \A m \in 1..i : expression[m] \in SimpleChars
                /\ pre.kind = "Ok"
                /\ Constant_is_token(c, expression, Len(expression), i)
                      = <<Number(c.value), Len(c.name)>> )
              => tokenize(upto) = Ok(Append(pre.value, Number(c.value)))
    /\ expression = <<"2", "*", "U+03C0">> => Tokenized

-----------------------------------------------------------------------------
(* C5: evaluate never returns Ok for an expression whose parentheses are   *)
(* unbalanced, be the unmatched one an opening or a closing parenthesis.   *)
Depth(chars, n) ==
    Cardinality({m \in 1..n : chars[m] = "("})
       - Cardinality({m \in 1..n : chars[m] = ")"})

Balanced(chars) ==
    /\ \A n \in 1..Len(chars) : Depth(chars, n) >= 0
    /\ Depth(chars, Len(chars)) = 0

C5_UnbalancedNeverOk ==
    (pc = "done" /\ ~Balanced(expression)) => outcome.kind # "Ok"

-----------------------------------------------------------------------------
(* C6: evaluate returns Ok or Err for every input and never panics; a run  *)
(* of digits and '.' that is no float literal gives an Err.                *)
C6_NeverPanics == pc = "done" => outcome.kind \in {"Ok", "Err"}

-----------------------------------------------------------------------------
(* What a reader of the grammar expects at each token: an operand, an      *)
(* operator, or the parenthesis of a function.  The verdict is "bad" at    *)
(* the first token in operand position that starts no operand, "end" when  *)
(* an operand is awaited and the tokens are exhausted, "other" else; plain *)
(* counts the plain parentheses open at that point.                        *)
BinaryTypes == {"Plus", "Minus", "Multiply", "Divide", "Exponent"}

PlainOpen(stack) == Cardinality({n \in 1..Len(stack) : stack[n] = "plain"})

RECURSIVE Scan(_, _, _, _)
Scan(tokens, p, state, stack) ==
    IF p > Len(tokens)
    THEN IF state = "operand"
         THEN [kind |-> "end", at |-> p, plain |-> PlainOpen(stack)]
         ELSE [kind |-> "other", at |-> p, plain |-> PlainOpen(stack)]
    ELSE LET t == tokens[p].type IN
         CASE state = "operand" /\ t = "Number" ->
                Scan(tokens, p + 1, "operator", stack)
           [] state = "operand" /\ t = "OpenParen" ->
                Scan(tokens, p + 1, "operand", Append(stack, "plain"))
           [] state = "operand" /\ t = "Minus" ->
                Scan(tokens, p + 1, "operand", stack)
           [] state = "operand" /\ t = "UnaryFunction" ->
                Scan(tokens, p + 1, "paren", stack)
           [] state = "operand" /\ t \in {"Plus", "Multiply", "Divide",
                                           "Exponent", "CloseParen"} ->
                [kind |-> "bad", at |-> p, plain |-> PlainOpen(stack)]
           [] state = "paren" /\ t = "OpenParen" ->
                Scan(tokens, p + 1, "operand", Append(stack, "func"))
           [] state = "operator" /\ t \in BinaryTypes ->
                Scan(tokens, p + 1, "operand", stack)
           [] state = "operator" /\ t = "CloseParen" /\ stack # <<>> ->
                Scan(tokens, p + 1, "operator", SubSeq(stack, 1, Len(stack) - 1))
           [] OTHER -> [kind |-> "other", at |-> p, plain |-> PlainOpen(stack)]

Verdict == Scan(Tokens, 1, "operand", <<>>)

-----------------------------------------------------------------------------
(* C7: when the token in operand position is '+', '*', '/', '^' or ')',    *)
(* evaluate fails with "Unexpected token: " and the Debug form of that     *)
(* token, at top level, inside the parentheses of a function and inside    *)
(* plain parentheses alike.                                                *)
C7_UnexpectedToken ==
    (pc = "done" /\ Tokenized /\ Verdict.kind = "bad")
       => outcome = Err(MsgUnexpected(Tokens[Verdict.at]))

-----------------------------------------------------------------------------
(* C8: when an operand is awaited and the tokens are exhausted, evaluate   *)
(* fails with "Unexpected end of token stream", at top level, inside the   *)
(* parentheses of a function and inside plain parentheses alike.           *)
C8_UnexpectedEnd ==
    (pc = "done" /\ Tokenized /\ expression # <<>> /\ Verdict.kind = "end")
       => outcome = Err(MsgEnd)

-----------------------------------------------------------------------------
(* C9: parse_primary on a UnaryFunction token.  If the next token is not   *)
(* '(' or is missing, the result is "Function must be followed by opening  *)
(* parenthesis".  If '(' follows and the argument parses: when the token   *)
(* after the argument is not ')' or is missing the result is "Unmatched    *)
(* opening parenthesis", else it is the Function node over the argument's  *)
(* tree, the cursor after the ')'.  A complete expression arg between the  *)
(* '(' and a ')' is that argument.  At top level evaluate returns these    *)
(* messages, and the function's value of the argument's value.             *)
C9_At(tokens, p) ==
    LET r    == parse_primary(tokens, p)
        func == tokens[p + 1].func
        arg  == parse_expression(tokens, p + 2)
    IN  IF p + 1 >= Len(tokens) \/ tokens[p + 2].type # "OpenParen"
        THEN ~r.ok /\ r.err = MsgNoParen
        ELSE /\ arg.ok =>
                  IF arg.current < Len(tokens)
                     /\ tokens[arg.current + 1].type = "CloseParen"
                  THEN r = POk(FunctionNode(func, arg.node), arg.current + 1)
                  ELSE ~r.ok /\ r.err = MsgUnmatched
             /\ \A b \in p + 3..Len(tokens) :
                  LET mid == SubSeq(tokens, p + 3, b - 1) IN
                  (tokens[b].type = "CloseParen" /\ WellFormed(mid))
                     => r = POk(FunctionNode(func, parse(mid).node), b)

C9_FunctionCall ==
    /\ \A p \in 0..Len(Tokens) - 1 :
          Tokens[p + 1].type = "UnaryFunction" => C9_At(Tokens, p)
    /\ (pc = "done" /\ Tokenized /\ Tokens # <<>>
           /\ Tokens[1].type = "UnaryFunction")
          => LET r == parse_primary(Tokens, 0) IN
             IF r.ok
             THEN /\ r.node.node = "Function"
                  /\ r.current = Len(Tokens) =>
                        outcome = Ok(Function_evaluate(r.node.func,
                                        AstNode_evaluate(r.node.expr, angle_mode),
                                        angle_mode))
             ELSE outcome = Err(r.err)

C9_Witness ==
    /\ pc = "done"
    /\ expression = <<"l", "n", "(", "2", ")">>
    /\ outcome = Ok(Term(<<"l", "n">>, <<Rat(2, 1)>>))

-----------------------------------------------------------------------------
(* C10: at the first character that is no digit, '.', operator,            *)
(* parenthesis, space or newline and where no registered name matches,     *)
(* tokenize fails with "Invalid token '<c>' at position: <i>", i being the *)
(* zero-based index of c in code points, and returns no tokens.            *)
FunctionAt(chars, i) ==
    {n \in 1..Len(function_register) :
        Function_is_token(function_register[n], chars, Len(chars), i) # <<>>}

ConstantAt(chars, i) ==
    {n \in 1..Len(constant_register) :
        LET name == constant_register[n].name IN
        /\ NameAt(chars, Len(chars), i, name)
        /\ ~(i + Len(name) < Len(chars) /\ is_alphanumeric(chars[i + Len(name) + 1]))}

\* the index of the first character that nothing matches, -1 if there is none
RECURSIVE FirstUnmatched(_, _)
FirstUnmatched(chars, i) ==
    IF ~(i < Len(chars)) THEN -1
    ELSE IF chars[i + 1] \in SimpleChars THEN FirstUnmatched(chars, i + 1)
    ELSE IF FunctionAt(chars, i) # {}
    THEN FirstUnmatched(chars,
            i + Len(function_register[CHOOSE n \in FunctionAt(chars, i) : TRUE]))
    ELSE IF ConstantAt(chars, i) # {}
    THEN FirstUnmatched(chars,
            i + Len(constant_register[CHOOSE n \in ConstantAt(chars, i) : TRUE].name))
    ELSE i

C10_InvalidToken ==
    LET i == FirstUnmatched(expression, 0) IN
    (pc = "done" /\ i >= 0) => outcome = Err(MsgInvalid(expression[i + 1], i))

-----------------------------------------------------------------------------
\* the registered names that Function::is_token accepts at position i
Matches(chars, i) ==
    {n \in 1..Len(function_register) :
        Function_is_token(function_register[n], chars, Len(chars), i) # <<>>}

\* name occurs in full at i and no letter or digit follows it
OccursAlone(chars, i, name) ==
    /\ i + Len(name) <= Len(chars)
    /\ \A k \in 1..Len(name) : chars[i + k] = name[k]
    /\ (i + Len(name) = Len(chars) \/ ~is_alphanumeric(chars[i + Len(name) + 1]))

FnName(n) == function_register[n]

Sinh2 == <<"s", "i", "n", "h", "(", "2", ")">>
Log2_8 == <<"l", "o", "g", "2", "(", "8", ")">>
Acosec2 == <<"a", "c", "o", "s", "e", "c", "(", "2", ")">>

(* C11: at every position of the expression at most one registered        *)
(* function name matches, whatever the order of the registry: the names    *)
(* that match are exactly those that occur there in full with no letter or *)
(* digit after them, and parse_functions returns that one name or the      *)
(* invalid-token error.  So "sinh(" is sinh, "log2(" is log2, "acosec(" is *)
(* acosec, and "sin2", "sinx" match nothing.                               *)
C11_SingleMatch ==
    /\ \A i \in 0..(Len(expression) - 1) :
          LET M == Matches(expression, i)
              r == parse_functions(expression, Len(expression), i)
          IN  /\ Cardinality(M) <= 1
              /\ M = {n \in 1..Len(function_register) :
                         OccursAlone(expression, i, FnName(n))}
              /\ \A n \in M :
                    r = Ok(<<UnaryFunction(FnName(n)), Len(FnName(n))>>)
              /\ M = {} => r = Err(MsgInvalid(expression[i + 1], i))
    /\ pc = "done" =>
          /\ expression = Sinh2 =>
                Tokens = <<UnaryFunction(<<"s", "i", "n", "h">>), OpenParen,
                           Number(Rat(2, 1)), CloseParen>>
          /\ expression = Log2_8 =>
                Tokens = <<UnaryFunction(<<"l", "o", "g", "2">>), OpenParen,
                           Number(Rat(8, 1)), CloseParen>>
          /\ expression = Acosec2 =>
                Tokens = <<UnaryFunction(<<"a", "c", "o", "s", "e", "c">>),
                           OpenParen, Number(Rat(2, 1)), CloseParen>>
          /\ expression \in {<<"s", "i", "n", "2">>, <<"s", "i", "n", "x">>} =>
                outcome = Err(MsgInvalid("s", 0))

C11_Witness ==
    /\ pc = "done"
    /\ expression = Sinh2
    /\ Matches(expression, 0) = {13}
    /\ outcome = Ok(Term(<<"s", "i", "n", "h">>, <<Rat(2, 1)>>))

-----------------------------------------------------------------------------
\* the tree of the expression, when tokenize and parse both succeed
Parsed == Tokenized /\ parse(Tokens).ok

Ast == parse(Tokens).node

\* every BinaryOp carries a binary operator and every UnaryOp carries Minus
RECURSIVE OpsValid(_)
OpsValid(ast) ==
    CASE ast.node = "Number" -> TRUE
      [] ast.node = "UnaryOp" -> ast.op = Minus /\ OpsValid(ast.expr)
      [] ast.node = "BinaryOp" ->
           /\ ast.op \in {Plus, Minus, Multiply, Divide, Exponent}
           /\ OpsValid(ast.left) /\ OpsValid(ast.right)
      [] ast.node = "Function" ->
           ast.func \in {FnName(n) : n \in 1..Len(function_register)}
              /\ OpsValid(ast.expr)

TwoByZero == <<"2", "/", "0">>
SqrtNegative ==
    <<"s", "q", "r", "t", "(", "-", "7", ".", "4", "5", "6", ")">>

(* C12: once tokenize and parse have succeeded evaluation is total: every  *)
(* BinaryOp of the tree carries Plus, Minus, Multiply, Divide or Exponent  *)
(* and every UnaryOp carries Minus, so no panic branch is taken, and       *)
(* evaluate returns Ok of the number the tree evaluates to; a division by  *)
(* zero and the square root of a negative number return Ok as well.        *)
C12_EvaluationTotal ==
    (pc = "done" /\ Parsed) =>
        /\ OpsValid(Ast)
        /\ ~Panicked(AstNode_evaluate(Ast, angle_mode))
        /\ outcome = Ok(AstNode_evaluate(Ast, angle_mode))
        /\ expression = TwoByZero =>
              outcome = Ok(Term("div", <<Rat(2, 1), Rat(0, 1)>>))
        /\ expression = SqrtNegative =>
              outcome = Ok(Term(<<"s", "q", "r", "t">>, <<Rat(-932, 125)>>))

C12_Witness ==
    /\ pc = "done"
    /\ expression = <<"-", "2", "/", "(", "2", "-", "2", ")">>
    /\ Parsed
    /\ outcome = Ok(Term("div", <<Rat(-2, 1), Rat(0, 1)>>))

-----------------------------------------------------------------------------
\* n! = 1 * 2 * ... * n, the empty product being 1
RECURSIVE Fact(_)
Fact(n) == IF n = 0 THEN 1 ELSE n * Fact(n - 1)

DigitChar(n) == CHOOSE c \in Digits : DigitVal(c) = n

(* C13: factorial of a non-negative integer n <= 170 is n! (1 for n = 0    *)
(* and n = 1); above 170 it is +Infinity; at most 170 with a fractional    *)
(* part it is NaN.                                                         *)
C13_Factorial ==
    pc = "done" =>
        /\ \A n \in 0..MaxFact :
              expression = FactorialOf(<<DigitChar(n)>>) =>
                  outcome = Ok(Rat(Fact(n), 1))
        /\ expression \in {FactorialOf(<<"3", "0", "0">>),
                           FactorialOf(<<"1", "7", "1">>),
                           FactorialOf(<<"1", "7", "0", ".", "5">>)} =>
              outcome = Ok(INFINITY)
        /\ expression \in {FactorialOf(<<"5", ".", "5">>),
                           FactorialOf(<<"-", "1", ".", "5">>)} =>
              outcome = Ok(NAN)

-----------------------------------------------------------------------------
\* no token of the sequence is one of the twelve trigonometric functions
NoTrig(tokens) ==
    \A n \in 1..Len(tokens) :
        tokens[n].type = "UnaryFunction" => tokens[n].func \notin TrigFunctions

(* C14: the angle mode influences the twelve trigonometric functions only: *)
(* an expression that uses none of them has the same outcome (the same Ok  *)
(* value or the same Err message) in Degrees, Radians and Gradians, which  *)
(* is the outcome of the call made; tokenize and parse take no angle mode. *)
C14_ModeOnlyTrig ==
    (pc = "done" /\ NoTrig(Tokens)) =>
        \A mode \in AngleModes :
            outcome = Evaluator_evaluate(expression, mode)

C14_Witness ==
    /\ pc = "done"
    /\ angle_mode = "Gradians"
    /\ expression = Sinh2
    /\ outcome = Evaluator_evaluate(expression, "Radians")
    /\ outcome = Ok(Term(<<"s", "i", "n", "h">>, <<Rat(2, 1)>>))

-----------------------------------------------------------------------------
\* the history as it is after a recording that worked
Recorded ==
    \E before \in InitialHistories :
        history = History_add(before,
                      [expr |-> expression, value |-> outcome.value],
                      HISTORY_SIZE)

(* C15: the value evaluate returns for a valid expression does not depend  *)
(* on the recording: when the history lock cannot be taken or the write of *)
(* the file fails, the call returns the Ok value it returns when both      *)
(* succeed.                                                                *)
C15_SaveNeverInvalidates ==
    (pc = "done" /\ Parsed) =>
        /\ outcome = Ok(AstNode_evaluate(Ast, angle_mode))
        /\ outcome = Evaluator_evaluate(expression, angle_mode)

\* the write failed: the entry is in the history, the file is behind
C15_Witness ==
    /\ pc = "done"
    /\ expression = ComplexExpression
    /\ ~poisoned
    /\ Recorded
    /\ file # history
    /\ outcome = Ok(Rat(183, 1))

-----------------------------------------------------------------------------
(* Vocabulary of the conversion properties *)

\* the relative tolerance of assert_near, 1e-6, in units of 1e-7
Tolerance == 10

\* the natural logarithm of a literal of the catalogs, in units of 1e-7
LnE7(c) ==
    CASE c = "1e3" -> 69077553
      [] c = "1e6" -> 138155106
      [] c = "1e9" -> 207232658
      [] c = "OUNCES_PER_KILO" -> 35631451
      [] c = "16.0" -> 27725887
      [] c = "2240.0" -> 77142311
      [] c = "2000.0" -> 76009025
      [] c = "100.0" -> 46051702
      [] c = "METRES_PER_LIGHTYEAR" -> 367859260
      [] c = "METRES_PER_PARSEC" -> 379681328
      [] c = "YARDS_PER_METRE" -> 894869
      [] c = "3.0" -> 10986123
      [] c = "36.0" -> 35835189
      [] c = "1760.0" -> 74730691
      [] c = "2025.373" -> 76135092
      [] c = "10000.0" -> 92103404
      [] c = "4046.856422" -> 83056957
      [] c = "4840.0" -> 84846700
      [] c = "1000.0" -> 69077553
      [] c = "1_000_000.0" -> 138155106
      [] c = "35.19507973" -> 35609063
      [] c = "61.02374409" -> 41112630
      [] c = "1.733871455" -> 5503567
      [] c = "1.759753986" -> 5651740
      [] c = "20.0" -> 29957323
      [] c = "0.8798769932" -> -1279732
      [] c = "40.0" -> 36888795
      [] c = "0.2199692483" -> -15142675
      [] c = "160.0" -> 50751738
      [] c = "33.81402270" -> 35208756
      [] c = "2.113376419" -> 7482869
      [] c = "1.056688209" -> 551397
      [] c = "32.0" -> 34657359
      [] c = "0.2641720524" -> -13311547
      [] c = "128.0" -> 48520303
      [] c = "745.699872" -> 66143232
      [] c = "1.3558179483314" -> 3044049
      [] c = "0.1129848290276167" -> -21805017
      [] c = "12.0" -> 24849066
      [] c = "4.4482216152605" -> 14925044
      [] c = "0.278013851" -> -12800843
      [] c = "1055.05585262" -> 69613490
      [] c = "4.184" -> 14312677

\* the literals of temperature.rs
RatOf(c) ==
    CASE c = "273.15" -> Rat(5463, 20)
      [] c = "32.0" -> Rat(32, 1)
      [] c = "9.0" -> Rat(9, 1)
      [] c = "5.0" -> Rat(5, 1)

\* the steps only multiply and divide
Linear(steps) == \A n \in 1..Len(steps) : steps[n].op \in {"mul", "div"}

\* the logarithm of the factor a linear sequence of steps multiplies by
RECURSIVE LogOf(_)
LogOf(steps) ==
    IF steps = <<>> THEN 0
    ELSE LogOf(Tail(steps))
         + (IF Head(steps).op = "mul" THEN 1 ELSE -1) * LnE7(Head(steps).c)

StepToken(op) ==
    CASE op = "mul" -> Multiply [] op = "div" -> Divide
      [] op = "add" -> Plus [] op = "sub" -> Minus

\* the number the steps of temperature.rs make of x
RECURSIVE Eval(_, _)
Eval(steps, x) ==
    IF steps = <<>> THEN x
    ELSE Eval(Tail(steps),
              perform_binary(StepToken(Head(steps).op), x, RatOf(Head(steps).c)))

\* two numbers made from the same start are equal up to the tolerance
Close(a, b) ==
    IF Linear(a) /\ Linear(b)
    THEN Abs(LogOf(a) - LogOf(b)) <= Tolerance
    ELSE \A x \in {Rat(0, 1), Rat(1, 1), Rat(-40, 1)} : Eval(a, x) = Eval(b, x)

Converted == pc \in {"converted", "returned"}

(* C16: convert(x, u, u) returns x itself, with none of u's conversion     *)
(* functions applied, for every unit u.                                    *)
C16_Identity ==
    (Converted /\ conv.from = conv.to) => conv.result = Some(conv.value)

\* a unit with all four functions set, converted to itself
C16_Witness ==
    /\ Converted
    /\ conv.from = conv.to
    /\ conv.from.name = "Sq_Foot"
    /\ conv.from.to_system_base # None
    /\ conv.result = Some(<<>>)

-----------------------------------------------------------------------------
\* the steps of an optional function, none when it is None
StepsOf(option) == IF option = None THEN <<>> ELSE option[1]

\* both units are of one system that is not Metric, and of one dimension
SystemRoute(from, to) ==
    /\ from.system = to.system
    /\ from.dimension = to.dimension
    /\ from.system # "Metric"

(* C17: for units of different names convert applies from.to_system_base   *)
(* and then to.from_system_base when the two units have the same system,   *)
(* not Metric, and the same dimension; in every other case from.to_base    *)
(* and then to.from_base.  A function that is None is skipped, and the     *)
(* function of `from` is applied before the function of `to`.              *)
C17_Selection ==
    (Converted /\ conv.from.name # conv.to.name) =>
        conv.result =
            Some(conv.value
                 \o (IF SystemRoute(conv.from, conv.to)
                     THEN StepsOf(conv.from.to_system_base)
                          \o StepsOf(conv.to.from_system_base)
                     ELSE StepsOf(conv.from.to_base)
                          \o StepsOf(conv.to.from_base)))

\* convert(2.0, OUNCE, POUND) == 0.125: the system base's None is skipped
C17_Witness ==
    /\ Converted
    /\ conv.from.name = "Ounce" /\ conv.from.dimension = "Mass"
    /\ conv.to.name = "Pound" /\ conv.to.dimension = "Mass"
    /\ conv.from.to_system_base = None
    /\ conv.result = Some(Div("16.0"))

-----------------------------------------------------------------------------
(* C18: round trip: for every two units a, b of one dimension's catalog,   *)
(* convert(convert(x, a, b), b, a) equals x up to the tolerance.           *)
C18_RoundTrip ==
    (pc = "returned" /\ conv.from.dimension = conv.to.dimension) =>
        Close(conv.back[1], conv.value)

-----------------------------------------------------------------------------
\* what from.to_base and then to.from_base make of the number
BaseRoute ==
    conv.value \o StepsOf(conv.from.to_base) \o StepsOf(conv.to.from_base)

(* C19: for every two distinct units of one dimension and of one system    *)
(* that is not Metric, the number convert returns through the system base  *)
(* agrees, up to the tolerance, with from.to_base followed by to.from_base.*)
C19_ShortcutAgrees ==
    (Converted /\ SystemRoute(conv.from, conv.to)
       /\ conv.from.name # conv.to.name) =>
        Close(conv.result[1], BaseRoute)

-----------------------------------------------------------------------------
\* the units of a system in the catalog of a dimension
UnitsOf(dimension, system) ==
    {u \in AllUnits : u.dimension = dimension /\ u.system = system}

IsSystemBase(u) == u.to_system_base = None /\ u.from_system_base = None

HasSystemBase(u) == u.to_system_base # None /\ u.from_system_base # None

(* C20: in every catalog of get_units, the units of each system that is    *)
(* not Metric share one system base: exactly one of them has               *)
(* to_system_base and from_system_base both None, every other has both.    *)
C20_OneSystemBase ==
    Converted =>
        \A system \in {"Imperial", "US"} :
            LET units == UnitsOf(conv.from.dimension, system)
            IN  units # {} =>
                    /\ Cardinality({u \in units : IsSystemBase(u)}) = 1
                    /\ \A u \in units : IsSystemBase(u) \/ HasSystemBase(u)

-----------------------------------------------------------------------------
\* the catalog of a dimension, as a set
CatalogOf(dimension) ==
    {get_units(dimension)[n] : n \in 1..Len(get_units(dimension))}

IsBase(u) == u.to_base = None /\ u.from_base = None

HasBase(u) == u.to_base # None /\ u.from_base # None

(* C21: every catalog of get_units has exactly one dimension base unit, a  *)
(* Metric unit whose to_base and from_base are both None, and every other  *)
(* unit of the catalog has to_base and from_base both set, never only one  *)
(* of the two.                                                             *)
C21_OneBase ==
    Converted =>
        \A d \in {conv.from.dimension, conv.to.dimension} :
            /\ Cardinality({u \in CatalogOf(d) : IsBase(u)}) = 1
            /\ \A u \in CatalogOf(d) :
                  /\ IsBase(u) \/ HasBase(u)
                  /\ IsBase(u) => u.system = "Metric"

\* a conversion from the base of the temperatures to a unit that has both
C21_Witness ==
    /\ Converted
    /\ conv.from.name = "Celsius" /\ IsBase(conv.from)
    /\ conv.to.name = "Fahrenheit" /\ HasBase(conv.to)
    /\ conv.result = Some(Div("5.0") \o Mul("9.0") \o Add("32.0"))

-----------------------------------------------------------------------------
\* no step of the sequence is the panic of an unwrap on None
NoPanic(steps) == \A n \in 1..Len(steps) : steps[n].op # "panic"

\* the four optional functions of a unit
FunctionsOf(u) ==
    {u.to_base, u.from_base, u.to_system_base, u.from_system_base}

(* C22: convert returns a number and does not panic for every ordered pair *)
(* of catalog units, pairs of different dimensions or systems and units    *)
(* with functions that are None included, in both directions; every        *)
(* unwrap() inside a conversion closure of a unit is applied to Some.      *)
C22_NeverPanics ==
    /\ Converted => conv.result # None /\ NoPanic(conv.result[1])
    /\ pc = "returned" => conv.back # None /\ NoPanic(conv.back[1])
    /\ Converted =>
          \A u \in {conv.from, conv.to} :
              \A f \in FunctionsOf(u) : NoPanic(StepsOf(f))

\* convert(x, MILLIGRAM, SQ_YARD): two dimensions, both closures unwrap
C22_Witness ==
    /\ pc = "returned"
    /\ conv.from.name = "Milligram" /\ conv.to.name = "Sq_Yard"
    /\ conv.result =
          Some(from_milli \o to_kilo
               \o Mul("YARDS_PER_METRE") \o Mul("YARDS_PER_METRE"))
    /\ NoPanic(conv.back[1])

-----------------------------------------------------------------------------
(* The cursor of the parser *)

\* the tokens consumed so far are the tokens before the cursor, each once
\* and in their order
ConsumedInOrder ==
    /\ parser.current <= Len(parser.tokens)
    /\ parser.consumed = [i \in 1..parser.current |-> i - 1]

\* a step moves the cursor forward by one for each token it consumes, by
\* nothing otherwise, and examines no token that was consumed before it
CursorStep ==
    /\ parser'.current \in {parser.current, parser.current + 1}
    /\ Len(parser'.consumed) - Len(parser.consumed)
          = parser'.current - parser.current
    /\ \A i \in 1..Len(parser'.examined) :
          /\ parser'.examined[i] >= parser.current
          /\ \A j \in 1..Len(parser.consumed) :
                parser'.examined[i] # parser.consumed[j]

\* the parser taken step by step returns what the recursive parser returns
\* and leaves the cursor where it leaves it
ParserStepsAgree ==
    pc = "parsed" =>
        /\ parser.ret = <<parse(parser.tokens)>>
        /\ parser.current = parse(parser.tokens).current

\* C23: during Parser::parse the cursor current only ever increases, by
\* exactly one per consumed token, and never exceeds tokens.len(); no token
\* is examined again after it has been consumed, and parse terminates,
\* also on nested parentheses and on repeated unary minus.
C23_CursorOnlyAdvances ==
    /\ [](pc \in {"parse", "parsed"} => ConsumedInOrder)
    /\ [][pc = "parse" => CursorStep]_vars
    /\ <>(pc = "parsed")

C23_Witness ==
    /\ pc = "parsed"
    /\ expression = <<"-", "-", "(", "(", "5", ")", ")">>
    /\ parser.current = 7
    /\ parser.consumed = <<0, 1, 2, 3, 4, 5, 6>>
    /\ parser.ret = <<POk(UnaryOp(Minus, UnaryOp(Minus, NumberNode(Rat(5, 1)))), 7)>>

-----------------------------------------------------------------------------
(* Unary minus *)

\* the length of the run of Minus tokens the tokens start with
RECURSIVE LeadingMinus(_)
LeadingMinus(tokens) ==
    IF tokens # <<>> /\ tokens[1] = Minus
    THEN 1 + LeadingMinus(Tail(tokens))
    ELSE 0

\* n nested UnaryOp(Minus) nodes around a node
RECURSIVE Negated(_, _)
Negated(n, node) ==
    IF n = 0 THEN node ELSE UnaryOp(Minus, Negated(n - 1, node))

\* the value of n negations of a number
Signed(n, v) == IF n % 2 = 0 THEN v ELSE Rat(-v.n, v.d)

\* the operand of every UnaryOp of the tree is a number or a UnaryOp
RECURSIVE NegatesPrimary(_)
NegatesPrimary(ast) ==
    CASE ast.node = "Number" -> TRUE
      [] ast.node = "UnaryOp" ->
           /\ ast.expr.node \in {"Number", "UnaryOp"}
           /\ NegatesPrimary(ast.expr)
      [] ast.node = "BinaryOp" ->
           NegatesPrimary(ast.left) /\ NegatesPrimary(ast.right)
      [] ast.node = "Function" -> NegatesPrimary(ast.expr)

IsNumber(token) == token.type = "Number"

\* C24: a Minus in primary position negates exactly the next primary: n
\* leading minus signs before a number give n nested UnaryOp(Minus) nodes and
\* the number with n sign changes ("--5" is 5); without parentheses the
\* operand of a unary minus is never a binary operation, -a o b is (-a) o b
\* for every binary operator o, the exponent included ("-2^2" is 4); and
\* a o -b parses as a o (-b) for every binary operator o ("2*-3", "2^-1").
C24_MinusNegatesPrimary ==
    /\ ( /\ Tokenized
         /\ LeadingMinus(Tokens) = Len(Tokens) - 1
         /\ Len(Tokens) >= 2
         /\ IsNumber(Tokens[Len(Tokens)]) )
          => /\ parse(Tokens) =
                  POk(Negated(Len(Tokens) - 1,
                              NumberNode(Tokens[Len(Tokens)].value)),
                      Len(Tokens))
             /\ pc = "done" =>
                  outcome = Ok(Signed(Len(Tokens) - 1,
                                      Tokens[Len(Tokens)].value))
    /\ (Parsed /\ ParenFree(Tokens)) => NegatesPrimary(Ast)
    /\ ( /\ Tokenized /\ Len(Tokens) = 4
         /\ Tokens[1] = Minus /\ IsNumber(Tokens[2])
         /\ Tokens[3].type \in BinaryTypes /\ IsNumber(Tokens[4]) )
          => parse(Tokens) =
               POk(BinaryOp(UnaryOp(Minus, NumberNode(Tokens[2].value)),
                            Tokens[3], NumberNode(Tokens[4].value)), 4)
    /\ ( /\ Tokenized /\ Len(Tokens) = 4
         /\ IsNumber(Tokens[1]) /\ Tokens[2].type \in BinaryTypes
         /\ Tokens[3] = Minus /\ IsNumber(Tokens[4]) )
          => parse(Tokens) =
               POk(BinaryOp(NumberNode(Tokens[1].value), Tokens[2],
                            UnaryOp(Minus, NumberNode(Tokens[4].value))), 4)
    /\ (pc = "done" /\ expression = <<"-", "-", "5">>)
          => outcome = Ok(Rat(5, 1))
    /\ (pc = "done" /\ expression = <<"-", "2", "^", "2">>)
          => outcome = Ok(Rat(4, 1))
    /\ (pc = "done" /\ expression = <<"2", "*", "-", "3">>)
          => outcome = Ok(Rat(-6, 1))
    /\ (pc = "done" /\ expression = <<"2", "^", "-", "1">>)
          => outcome = Ok(Rat(1, 2))

C24_Witness ==
    /\ pc = "done"
    /\ expression = <<"-", "2", "^", "2">>
    /\ Ast = BinaryOp(UnaryOp(Minus, NumberNode(Rat(2, 1))), Exponent,
                      NumberNode(Rat(2, 1)))
    /\ outcome = Ok(Rat(4, 1))

-----------------------------------------------------------------------------
\* C25: whenever parse returns Ok every token has been consumed (current =
\* tokens.len()), and tokens left over after a complete expression ("2 3",
\* "2(3)", "2 sin(0)") give Err instead of the value of the prefix.
C25_AllTokensConsumed ==
    /\ (pc = "done" /\ Parsed) => parse(Tokens).current = Len(Tokens)
    /\ (pc = "done" /\ expression \in JuxtaposedInputs \ {<<"2", "+", "2">>})
          => outcome.kind = "Err"

-----------------------------------------------------------------------------
(* Frame of Evaluator::evaluate on the history *)

\* the entries that stay when one more is added to a history of 100 at most
Kept(entries) ==
    SubSeq(entries, 1,
           IF Len(entries) < HISTORY_SIZE THEN Len(entries)
           ELSE HISTORY_SIZE - 1)

\* C26: evaluate changes the history only on success.  A call that returns
\* Err leaves the entries as they were and writes no file; a call that
\* returns Ok(v) puts exactly one entry, the expression as given and v, at
\* the front of the entries and then saves them (the write of the file may
\* fail and is then only logged), also when v is NaN or infinite and when
\* the expression is already the newest entry.  The lock of the entries is
\* taken to be sound, as it is in every run of the program.
C26_HistoryOnlyOnSuccess ==
    [][(pc = "ready" /\ ~poisoned) =>
          /\ outcome'.kind = "Err" => history' = history /\ file' = file
          /\ outcome'.kind = "Ok" =>
                /\ history' = <<[expr |-> expression,
                               value |-> outcome'.value]>> \o Kept(history)
                /\ Len(history') = Len(history) + 1
                /\ file' \in {history', file}
          /\ outcome'.kind \notin {"Err", "Ok"} =>
                history' = history /\ file' = file]_vars

\* "2+2" evaluated when it is already the newest entry
C26_Witness ==
    /\ pc = "done"
    /\ ~poisoned
    /\ expression = <<"2", "+", "2">>
    /\ outcome = Ok(Rat(4, 1))
    /\ Len(history) = 2
    /\ history[1] = [expr |-> expression, value |-> Rat(4, 1)]
    /\ history[2] = history[1]
    /\ file = history

-----------------------------------------------------------------------------
(* The size and the order of the history *)

\* every entry is newer than the entries behind it
NewestFirst(entries) ==
    \A i \in 1..Len(entries) : \A j \in i + 1..Len(entries) :
        entries[i].value.n > entries[j].value.n

\* the entries an add keeps: all of them, or the newest max_size - 1
Surviving(entries, size) ==
    SubSeq(entries, 1, IF Len(entries) < size THEN Len(entries) ELSE size - 1)

\* C27: after any sequence of History::add calls on a history with
\* max_size >= 1 the entries are at most max_size (100 for the history of
\* the process, also when the file held more) and newest first, and each add
\* drops only the oldest entries, from the back, and as many as make room,
\* before it puts the new entry at the front.
C27_BoundedNewestFirst ==
    /\ []((pc = "history" /\ Added >= 1) =>
            /\ Len(history) <= history_max_size
            /\ history_max_size = HISTORY_SIZE => Len(history) <= 100
            /\ NewestFirst(history))
    /\ [][pc = "history" =>
            /\ history'[1].value = Rat(Added + 1, 1)
            /\ Tail(history') = Surviving(history, history_max_size)]_vars

\* the history of the process, loaded with more than 100 entries, after adds
C27_Witness ==
    /\ pc = "history"
    /\ history_max_size = HISTORY_SIZE
    /\ file = Loaded(HISTORY_SIZE + 1)
    /\ Added = 2
    /\ Len(history) = 100
    /\ history[3] = file[1]
    /\ history[100] = file[98]

-----------------------------------------------------------------------------
\* C29: no two distinct units of the nine catalogs have the same name, so
\* two units are equal (by name) exactly when they are the same catalog unit
\* and convert returns its argument untouched, through the test from == to,
\* for no pair of different units.
C29_NamesDistinct ==
    Converted =>
        /\ Unit_eq(conv.from, conv.to) <=> conv.from = conv.to
        /\ conv.from # conv.to =>
              convert(conv.value, conv.from, conv.to)
                = apply(convert_functions(conv.from, conv.to)[2],
                        apply(convert_functions(conv.from, conv.to)[1],
                              conv.value))

-----------------------------------------------------------------------------
(* The window while converting *)

\* C28: in every state of CalcWindow reachable from its default state by
\* any sequence of messages, is_converting implies that convert_from and
\* convert_to are both Some (the three are set together and cleared
\* together), so view never calls try_convert with a missing unit and never
\* shows its 0.0.
C28_ConvertingHasUnits ==
    pc = "window" =>
        /\ win.is_converting => win.convert_from # None /\ win.convert_to # None
        /\ win.is_converting <=> win.convert_from # None
        /\ win.is_converting <=> win.convert_to # None
        /\ win.is_converting =>
              view(win).conv_from # None /\ view(win).conv_to # None
        /\ view(win).converted_result # None =>
              /\ ~view(win).converted_result[1].warned
              /\ view(win).converted_result[1] =
                    [of |-> win.result[1].value,
                     steps |-> convert(<<>>, win.convert_from[1],
                                       win.convert_to[1]),
                     warned |-> FALSE]

\* 2 converted from Celsius to Kelvin
C28_Witness ==
    /\ pc = "window"
    /\ win.is_converting
    /\ win.content.text = <<"2">>
    /\ win.result = Some(Ok(Rat(2, 1)))
    /\ win.convert_from[1].name = "Celsius"
    /\ win.convert_to[1].name = "Kelvin"
    /\ view(win).converted_result =
          Some([of |-> Rat(2, 1), steps |-> Add("273.15"), warned |-> FALSE])

-----------------------------------------------------------------------------
(* The angle mode of the window *)

\* C30: the angle mode of the window changes only when ToggleMode is
\* handled, and then from Degrees to Radians, from Radians to Gradians and
\* from Gradians to Degrees, so that a third toggle gives the mode before
\* the first; after each toggle the name in the angle-mode preference is
\* read back by get_from_name as the mode now in force, "Grads" as
\* Gradians, and so is the name a window started from.
C30_ToggleCycle ==
    /\ [](pc = "window" /\ prefs[ANGLE_MODE] # None =>
            get_from_name(prefs[ANGLE_MODE][1]) = Calc_angle_mode(win.calc))
    /\ [][pc = "window" =>
            /\ Calc_angle_mode(win'.calc) # Calc_angle_mode(win.calc)
                  => Message_ToggleMode
            /\ prefs'[ANGLE_MODE] # prefs[ANGLE_MODE] => Message_ToggleMode
            /\ Message_ToggleMode =>
                  /\ <<Calc_angle_mode(win.calc), Calc_angle_mode(win'.calc)>>
                        \in {<<"Degrees", "Radians">>, <<"Radians", "Gradians">>,
                             <<"Gradians", "Degrees">>}
                  /\ ToggledMode(ToggledMode(Calc_angle_mode(win'.calc)))
                        = Calc_angle_mode(win.calc)
                  /\ prefs'[ANGLE_MODE] # None
                  /\ get_from_name(prefs'[ANGLE_MODE][1])
                        = Calc_angle_mode(win'.calc)
                  /\ Calc_angle_mode(win'.calc) = "Gradians"
                        => prefs'[ANGLE_MODE] = Some("Grads")]_vars

\* a window started in Radians and toggled to Gradians
C30_Witness ==
    /\ pc = "window"
    /\ Calc_angle_mode(win.calc) = "Gradians"
    /\ view(win).mode = "Grads"
    /\ prefs[ANGLE_MODE] = Some("Grads")
    /\ get_from_name("Grads") = "Gradians"
    /\ win.result = Some(Ok(Rat(2, 1)))

====
